---- MODULE Spec2Model ----
(***************************************************************************)
(* Model of the deduplication + batch-enrichment pipeline of khoborfreshb: *)
(*   app/services/news_merger_service.py    (merge, similarity, dedupe)     *)
(*   app/services/detailed_news_service.py  (batch partition, enrichment)   *)
(*   app/services/supabase_service.py       (normalize, upsert)             *)
(*   app/api/endpoints.py                   (all-in-one run, uploads)       *)
(*                                                                         *)
(* Representation choices:                                                  *)
(*  - a text is the sequence of its word tokens (positive integers); this  *)
(*    is what TfidfVectorizer sees after lower-casing and tokenising, so   *)
(*    whitespace and str.strip() disappear;                                *)
(*  - JSON null / Python None is Null for text fields and UrlNone for URL  *)
(*    fields; a dictionary key that is missing is Absent;                  *)
(*  - a similarity score is the exact rational cos^2 = num/den of the      *)
(*    TF-IDF cosine (cos >= 0.85 iff cos^2 >= 289/400 because cos >= 0).   *)
(***************************************************************************)
EXTENDS Integers, Sequences, FiniteSets, TLC

VARIABLES
    files,             \* data/: latest dailystar_news_* and prothomalo_news_* file
    mergedFile,        \* data/merged_news_*.json last written by merge_news_sources
    lastMerge,         \* what the last merge_news_sources call worked on and returned
    detailedFiles,     \* data/detailed_news_batch{1..4}_* and (index 0) all_batches_*
    store,             \* the Supabase table, one row per source_url
    pc,                \* position of the running handler
    mode,              \* which entry point is running: "batch", "all", "merge"
    batch_number,      \* argument of process_merged_news_batch
    all_articles,      \* merged_data["news_articles"]
    bounds,            \* start_idx, end_idx, articles_per_batch, total_articles
    batch_articles,    \* all_articles[start_idx:end_idx]
    i,                 \* loop index of enumerate(batch_articles)
    article_data,      \* processed_data of the article being embedded
    detailed_articles, \* enriched articles collected so far
    processing_stats,  \* successful, failed, errors
    calls,             \* effects of this run in the order they were issued
    result,            \* the dictionary returned to the caller
    row,               \* what the last normalize_article_for_db call returned
    upsertLog,         \* the upsert_articles calls so far, oldest first
    all_batches,       \* the articles an upload endpoint hands to upsert_articles
    runLog             \* the calls that have returned to the client, oldest first

runVars == <<pc, mode, batch_number, all_articles, bounds, batch_articles, i,
             article_data, detailed_articles, processing_stats, calls, result>>

uploadVars == <<row, upsertLog, all_batches>>

vars == <<files, mergedFile, lastMerge, detailedFiles, store, runVars, uploadVars, runLog>>

----------------------------------------------------------------------------
(* Values *)

Null    == <<0>>        \* None in a text field (0 is not a word token)
Missing == <<-1>>       \* text field whose key is not in the dictionary
NoneTok == 9            \* the word "none": f"{None}" is the text "None"
UrlNone == "null"       \* None in a URL field
Absent  == "absent"     \* URL or other string field whose key is not there
NoNum   == -1           \* numeric field whose key is not there
NoFile  == [exists |-> FALSE, news_articles |-> <<>>]   \* glob found no file

FileOf(articles) == [exists |-> TRUE, news_articles |-> articles]

\* Python truthiness of a text field: None and '' are falsy
TruthyText(v) == v # Null /\ v # Missing /\ v # <<>>
\* Python truthiness of a URL field
TruthyUrl(u) == u # UrlNone /\ u # Absent /\ u # ""

\* f"{v}" for a text field
Fmt(v) == IF v = Null THEN <<NoneTok>> ELSE v

RECURSIVE SumOver(_, _)
SumOver(S, f) ==
    IF S = {} THEN 0
    ELSE LET x == CHOOSE y \in S : TRUE IN f[x] + SumOver(S \ {x}, f)

Min(a, b) == IF a <= b THEN a ELSE b

----------------------------------------------------------------------------
(* Similarity engine: calculate_text_similarity *)

\* TfidfVectorizer(ngram_range=(1, 2)): the unigrams and bigrams of a text
Terms(t) ==
    {<<t[k]>> : k \in 1..Len(t)} \cup {<<t[k], t[k + 1]>> : k \in 1..(Len(t) - 1)}

\* raw term count of one n-gram in a text
Tf(t, term) ==
    IF Len(term) = 1
    THEN Cardinality({k \in 1..Len(t) : t[k] = term[1]})
    ELSE Cardinality({k \in 1..(Len(t) - 1) : t[k] = term[1] /\ t[k + 1] = term[2]})

\* smooth idf over the two fitted documents is ln(3/(1+df)) + 1: it is 1 for
\* a term of both texts and 1 + ln 1.5 for a term of one text only; the
\* weights below are idf^2 scaled by IdfSqBoth (1.97533.. ~ 79/40)
IdfSqBoth == 40
IdfSqOne  == 79

\* squared l2 norm of the tf-idf row of t, whose terms are mine, when it is
\* fitted together with a text whose terms are theirs
NormSq(t, mine, theirs) ==
    SumOver(mine,
            [term \in mine |->
                Tf(t, term) * Tf(t, term) *
                (IF term \in theirs THEN IdfSqBoth ELSE IdfSqOne)])

\* dot product of the two tf-idf rows (only shared terms contribute, idf = 1)
Dot(t1, t2, shared) ==
    SumOver(shared, [term \in shared |-> Tf(t1, term) * Tf(t2, term) * IdfSqBoth])

ZeroScore == [num |-> 0, den |-> 1]

\* max_features=1000 is never reached by the texts of the model
calculate_text_similarity(text1, text2) ==
    IF text1 = <<>> \/ text2 = <<>> THEN ZeroScore
    ELSE LET terms1 == Terms(text1)
             terms2 == Terms(text2)
             d == Dot(text1, text2, terms1 \cap terms2)
         IN  IF d = 0 THEN ZeroScore
             ELSE [num |-> d * d,
                   den |-> NormSq(text1, terms1, terms2) * NormSq(text2, terms2, terms1)]

\* self.similarity_threshold = 0.85, squared: 0.7225 = 289/400
ThresholdNum == 289
ThresholdDen == 400

\* only a score of 1.0 counts as a duplicate
AtLeastThreshold_identical_only(s) == s.num = s.den /\ s.num > 0

\* similarity >= self.similarity_threshold
AtLeastThreshold(s) == s.num * ThresholdDen >= ThresholdNum * s.den

----------------------------------------------------------------------------
(* Deduplication stage: find_duplicates, merge_news_sources *)

\* f"{article.get('title', '')} {article.get('summary', '')}".strip()
ArticleText(a) ==
    (IF a.title = Missing THEN <<>> ELSE Fmt(a.title)) \o
    (IF a.summary = Missing THEN <<>> ELSE Fmt(a.summary))

\* the two nested loops, indices 0-based as in the source
RECURSIVE find_duplicates_loop(_, _, _, _)
find_duplicates_loop(articles, ii, jj, duplicates) ==
    IF ii >= Len(articles) THEN duplicates
    ELSE IF jj >= Len(articles)
         THEN find_duplicates_loop(articles, ii + 1, ii + 2, duplicates)
         ELSE LET similarity == calculate_text_similarity(
                                    ArticleText(articles[ii + 1]),
                                    ArticleText(articles[jj + 1]))
              IN  find_duplicates_loop(articles, ii, jj + 1,
                      IF AtLeastThreshold(similarity)
                      THEN Append(duplicates, <<ii, jj, similarity>>)
                      ELSE duplicates)

\* the inner loop of the first row starts at i instead of i + 1
find_duplicates_from_self(articles) == find_duplicates_loop(articles, 0, 0, <<>>)

find_duplicates(articles) == find_duplicates_loop(articles, 0, 1, <<>>)

\* the first index of every pair is removed instead of the second
ArticlesToRemove_first(duplicates) == {duplicates[k][1] : k \in 1..Len(duplicates)}

\* articles_to_remove: the second index of every duplicate pair
ArticlesToRemove(duplicates) == {duplicates[k][2] : k \in 1..Len(duplicates)}

\* the removal set is read as 1-based positions
RECURSIVE UniqueArticles_one_based(_, _, _)
UniqueArticles_one_based(articles, remove, idx) ==
    IF idx >= Len(articles) THEN <<>>
    ELSE (IF idx + 1 \in remove THEN <<>> ELSE <<[idx |-> idx, article |-> articles[idx + 1]]>>)
         \o UniqueArticles_one_based(articles, remove, idx + 1)

\* [article for idx, article in enumerate(all_articles) if idx not in remove],
\* each survivor paired with the idx enumerate gave it
RECURSIVE UniqueArticles(_, _, _)
UniqueArticles(articles, remove, idx) ==
    IF idx >= Len(articles) THEN <<>>
    ELSE (IF idx \in remove THEN <<>> ELSE <<[idx |-> idx, article |-> articles[idx + 1]]>>)
         \o UniqueArticles(articles, remove, idx + 1)

\* load_latest_news_files: (dailystar, prothomalo) or None for a missing one;
\* without a dailystar file it returns (None, None) before looking further
load_latest_news_files(f) ==
    IF ~f.dailystar.exists THEN [dailystar |-> NoFile, prothomalo |-> NoFile]
    ELSE IF ~f.prothomalo.exists THEN [dailystar |-> f.dailystar, prothomalo |-> NoFile]
    ELSE f

\* the per-source loop: tag every article with its provenance
TagSource(articles, file, name) ==
    [k \in 1..Len(articles) |->
        [articles[k] EXCEPT !.source_file = file, !.source_name = name]]

MergeFailed(err) ==
    [success |-> FALSE, error |-> err, all_articles |-> <<>>, duplicates |-> <<>>,
     kept |-> <<>>, news_articles |-> <<>>, sources_loaded |-> <<>>]

\* only the first pair of every earlier article removes its later article
MergeResult_one_per_article(all, sources, duplicates) ==
    LET firsts == {k \in 1..Len(duplicates) :
                      \A m \in 1..(k - 1) : duplicates[m][1] # duplicates[k][1]}
        unique == UniqueArticles(all, {duplicates[k][2] : k \in firsts}, 0)
    IN  [success |-> TRUE, error |-> Absent,
         all_articles |-> all,
         duplicates |-> duplicates,
         kept |-> [k \in 1..Len(unique) |-> unique[k].idx],
         news_articles |-> [k \in 1..Len(unique) |-> unique[k].article],
         sources_loaded |-> sources]

\* "Find and remove duplicates" and the returned dictionary
MergeResult(all, sources, duplicates) ==
    LET unique == UniqueArticles(all, ArticlesToRemove(duplicates), 0)
    IN  [success |-> TRUE, error |-> Absent,
         all_articles |-> all,
         duplicates |-> duplicates,
         kept |-> [k \in 1..Len(unique) |-> unique[k].idx],
         news_articles |-> [k \in 1..Len(unique) |-> unique[k].article],
         sources_loaded |-> sources]

merge_news_sources(f) ==
    LET latest == load_latest_news_files(f)
        ds == IF latest.dailystar.exists
              THEN TagSource(latest.dailystar.news_articles, "dailystar", "Daily Star Bangladesh")
              ELSE <<>>
        pa == IF latest.prothomalo.exists
              THEN TagSource(latest.prothomalo.news_articles, "prothomalo", "Prothom Alo")
              ELSE <<>>
        all == ds \o pa
        sources == (IF latest.dailystar.exists THEN <<"dailystar">> ELSE <<>>) \o
                   (IF latest.prothomalo.exists THEN <<"prothomalo">> ELSE <<>>)
    IN  IF ~latest.dailystar.exists /\ ~latest.prothomalo.exists
        THEN MergeFailed("No news files found")
        ELSE IF all = <<>> THEN MergeFailed("No articles found")
        ELSE CHOOSE r \in {MergeResult(all, sources, d) : d \in {find_duplicates(all)}} : TRUE

NoMergedFile == [exists |-> FALSE, name |-> <<0, 0>>, news_articles |-> <<>>]

\* the merged file a successful merge writes
MergedFileOf(m) ==
    [exists |-> TRUE,
     name |-> <<Len(m.sources_loaded), Len(m.news_articles)>>,
     news_articles |-> m.news_articles]

NoMerge == MergeFailed(Absent)

----------------------------------------------------------------------------
(* Batch partitioner: the arithmetic of process_merged_news_batch *)

TotalBatches == 4

\* the division rounding down instead of up
ArticlesPerBatch_floor(total_articles) == total_articles \div 4

\* (total_articles + 3) // 4
ArticlesPerBatch(total_articles) == (total_articles + 3) \div 4

StartIdx(b, total_articles) == (b - 1) * ArticlesPerBatch(total_articles)

EndIdx(b, total_articles) ==
    Min(StartIdx(b, total_articles) + ArticlesPerBatch(total_articles), total_articles)

\* Python's s[lo:hi] for 0 <= lo, 0 <= hi: both ends clamp to len(s) and
\* the slice is empty when lo >= hi
PySlice(s, lo, hi) ==
    LET l == Min(lo, Len(s))
        h == Min(hi, Len(s))
    IN  IF l >= h THEN <<>> ELSE SubSeq(s, l + 1, h)

BatchBounds(b, total_articles) ==
    [start_idx |-> StartIdx(b, total_articles),
     end_idx |-> EndIdx(b, total_articles),
     articles_per_batch |-> ArticlesPerBatch(total_articles),
     total_articles |-> total_articles]

\* all_articles[start_idx:end_idx]
BatchArticles(articles, b) ==
    PySlice(articles, StartIdx(b, Len(articles)), EndIdx(b, Len(articles)))

\* the all-in-one run iterates the whole merged list
AllBounds(total_articles) ==
    [start_idx |-> 0, end_idx |-> total_articles,
     articles_per_batch |-> total_articles, total_articles |-> total_articles]

NoBounds == [start_idx |-> 0, end_idx |-> 0, articles_per_batch |-> 0, total_articles |-> 0]

----------------------------------------------------------------------------
(* Persistence normalizer / upserter: supabase_service.py *)

\* EMBEDDING_DIM; the default 1536 is scaled down to keep vectors short
RequiredVectorDimension == 2

\* a JSON value of an optional field: its Python type, for a number its
\* value n (a float in tenths), for a list its items, for a string its
\* comma-separated pieces (0 is a piece that is blank after strip) and as n
\* what int() makes of it (NoNum when int() raises)
OptVal(kind, n, items) == [kind |-> kind, n |-> n, items |-> items]

\* None; article.get(key) also gives it for a key that is not there
OptNone == OptVal("none", 0, <<>>)

\* Python truthiness of an optional value
TruthyOpt(value) ==
    CASE value.kind = "none" -> FALSE
      [] value.kind \in {"int", "float"} -> value.n # 0
      [] value.kind \in {"str", "list"} -> value.items # <<>>
      [] OTHER -> TRUE

\* _coerce_int: int(value), None when it raises; int() truncates a float
coerce_int(value) ==
    CASE value.kind = "int" -> value
      [] value.kind = "float" -> OptVal("int", value.n \div 10, <<>>)
      [] value.kind = "str" /\ value.n # NoNum -> OptVal("int", value.n, <<>>)
      [] OTHER -> OptNone

\* _coerce_keywords: a list is kept (its items as strings), a string is
\* split at commas, the pieces stripped and the blank ones dropped
coerce_keywords(value) ==
    CASE value.kind = "list" -> OptVal("list", 0, value.items)
      [] value.kind = "str" ->
            LET parts == SelectSeq(value.items, LAMBDA piece : piece # 0)
            IN  IF parts = <<>> THEN OptNone ELSE OptVal("list", 0, parts)
      [] OTHER -> OptNone

\* _coerce_timestamp: a non-empty string as it is, a datetime as its
\* isoformat() string, anything else None
coerce_timestamp(value) ==
    CASE ~TruthyOpt(value) -> OptNone
      [] value.kind = "str" -> value
      [] value.kind = "datetime" -> OptVal("str", NoNum, <<value.n>>)
      [] OTHER -> OptNone

\* an embedding (a list of floats) is a sequence of positive integers; an
\* element 0 stands for a value float() rejects
NoEmbedding == Missing
\* a truthy value that cannot be iterated, such as a number
NotIterable == <<-2>>

\* the length of the vector is not compared with the required dimension
coerce_embedding_any_length(value) ==
    IF value = NoEmbedding \/ value = Null \/ value = <<>> \/ value = NotIterable
    THEN NoEmbedding
    ELSE IF \E k \in 1..Len(value) : value[k] = 0 THEN NoEmbedding
    ELSE value

coerce_embedding(value) ==
    IF value = NoEmbedding \/ value = Null \/ value = <<>> \/ value = NotIterable
    THEN NoEmbedding
    ELSE IF \E k \in 1..Len(value) : value[k] = 0 THEN NoEmbedding
    ELSE IF Len(value) # RequiredVectorDimension THEN NoEmbedding
    ELSE value

\* None: the article is skipped
NoRow == [valid |-> FALSE, title |-> Missing, full_text |-> Missing, summary |-> Missing,
          source_url |-> Absent, importance_level |-> OptNone, keywords |-> OptNone,
          date_time |-> OptNone, embedding |-> NoEmbedding]

\* the row of an article that has the three critical fields; a row without
\* an "embedding" key has embedding = NoEmbedding
RowOf(article, source_url, embedding) ==
    [valid |-> TRUE,
     title |-> article.title,
     full_text |-> article.full_text,
     summary |-> article.summary,
     source_url |-> source_url,
     importance_level |-> coerce_int(article.importance_level),
     keywords |-> coerce_keywords(article.keywords),
     date_time |-> coerce_timestamp(article.date_time),
     embedding |-> embedding]

\* an article whose importance_level is not an integer is skipped as well
normalize_article_for_db_strict(article) ==
    LET source_url == IF TruthyUrl(article.source_url) THEN article.source_url
                      ELSE article.url
    IN  IF ~TruthyText(article.title) \/ ~TruthyText(article.full_text)
           \/ ~TruthyUrl(source_url)
           \/ (article.importance_level # OptNone
                 /\ coerce_int(article.importance_level) = OptNone)
        THEN NoRow
        ELSE RowOf(article, source_url, coerce_embedding(article.embedding))

normalize_article_for_db(article) ==
    LET source_url == IF TruthyUrl(article.source_url) THEN article.source_url
                      ELSE article.url
    IN  IF ~TruthyText(article.title) \/ ~TruthyText(article.full_text)
           \/ ~TruthyUrl(source_url)
        THEN NoRow
        ELSE RowOf(article, source_url, coerce_embedding(article.embedding))

\* every row is put in front of the rows collected before it
RECURSIVE NormalizedRows_reversed(_)
NormalizedRows_reversed(articles) ==
    IF articles = <<>> THEN <<>>
    ELSE LET normalized == normalize_article_for_db(Head(articles))
         IN  NormalizedRows_reversed(Tail(articles))
             \o (IF normalized.valid THEN <<normalized>> ELSE <<>>)

\* rows: the normalized articles that are not None, in input order
RECURSIVE NormalizedRows(_)
NormalizedRows(articles) ==
    IF articles = <<>> THEN <<>>
    ELSE LET normalized == normalize_article_for_db(Head(articles))
         IN  (IF normalized.valid THEN <<normalized>> ELSE <<>>)
             \o NormalizedRows(Tail(articles))

\* a row that meets a stored row with its source_url deletes it
RECURSIVE StoreUpsert_toggle(_, _)
StoreUpsert_toggle(table, rows) ==
    IF rows = <<>> THEN table
    ELSE LET r == Head(rows)
         IN  StoreUpsert_toggle(
                 IF \E x \in table : x.source_url = r.source_url
                 THEN {x \in table : x.source_url # r.source_url}
                 ELSE table \cup {r},
                 Tail(rows))

\* the table after .upsert(rows, on_conflict="source_url"): a row replaces
\* the stored row with its source_url; the table is a function source_url -> row.
\* What the store does with two rows of one source_url in a single call is
\* not in this repository: the call may be rejected (outcome "error" of
\* upsert_articles) or applied row by row, as here
RECURSIVE StoreUpsert(_, _)
StoreUpsert(table, rows) ==
    IF rows = <<>> THEN table
    ELSE LET r == Head(rows)
         IN  StoreUpsert({x \in table : x.source_url # r.source_url} \cup {r}, Tail(rows))

NoUpload == [attempted |-> FALSE, success |-> FALSE, count |-> 0, error |-> Absent]

\* the rows are added to the table without conflict resolution
upsert_articles_plain_insert(table, articles, outcome) ==
    LET rows == NormalizedRows(articles)
    IN  IF rows = <<>>
        THEN [table |-> table, called |-> FALSE, rows |-> rows,
              ret |-> [attempted |-> TRUE, success |-> FALSE, count |-> 0,
                       error |-> "No valid rows to upsert"]]
        ELSE IF outcome = "ok"
        THEN [table |-> table \cup {rows[k] : k \in 1..Len(rows)},
              called |-> TRUE, rows |-> rows,
              ret |-> [attempted |-> TRUE, success |-> TRUE, count |-> Len(rows),
                       error |-> Absent]]
        ELSE [table |-> table, called |-> TRUE, rows |-> rows,
              ret |-> [attempted |-> TRUE, success |-> FALSE, count |-> 0,
                       error |-> "store error"]]

\* upsert_articles: the returned dictionary and the table afterwards;
\* outcome is what .execute() does: "ok" or "error" (it raises)
upsert_articles(table, articles, outcome) ==
    LET rows == NormalizedRows(articles)
    IN  IF rows = <<>>
        THEN [table |-> table, called |-> FALSE, rows |-> rows,
              ret |-> [attempted |-> TRUE, success |-> FALSE, count |-> 0,
                       error |-> "No valid rows to upsert"]]
        ELSE IF outcome = "ok"
        THEN [table |-> StoreUpsert(table, rows), called |-> TRUE, rows |-> rows,
              ret |-> [attempted |-> TRUE, success |-> TRUE, count |-> Len(rows),
                       error |-> Absent]]
        ELSE [table |-> table, called |-> TRUE, rows |-> rows,
              ret |-> [attempted |-> TRUE, success |-> FALSE, count |-> 0,
                       error |-> "store error"]]

StoreOutcomes == {"ok", "error"}

\* one upsert_articles call as the log keeps it: the argument, whether and
\* with which rows the store was called, what the store did, what was returned
UpsertEntry(articles, outcome, up) ==
    [articles |-> articles, called |-> up.called, rows |-> up.rows,
     outcome |-> IF up.called THEN outcome ELSE "none", ret |-> up.ret]

----------------------------------------------------------------------------
(* Articles of the model *)

RawArticle(title, summary, url, source_url) ==
    [title |-> title, summary |-> summary, url |-> url, source_url |-> source_url,
     source_file |-> Absent, source_name |-> Absent]

\* three texts that are not transitively similar: cos(KA,KB) = cos(KA,KC) = 0.91
\* and cos(KB,KC) = 0.75
KA == RawArticle(<<1, 1>>, <<2, 1>>, "u1", Absent)
KB == RawArticle(<<1, 2>>, <<1>>, "u2", Absent)
\* preprocessing stores the page URL as source_url when the article has no url
KC == RawArticle(<<2, 1>>, <<1>>, UrlNone, "u3")
\* an article without any URL
KD == RawArticle(<<3>>, <<4>>, UrlNone, Absent)
KE == RawArticle(<<5>>, <<6>>, "u5", Absent)
KF == RawArticle(<<7>>, <<8>>, "u6", Absent)
KG == RawArticle(<<10>>, <<11>>, "u7", Absent)
KH == RawArticle(<<12>>, <<13>>, "u8", Absent)
\* a second article of the same page, also without a url of its own
KP == RawArticle(<<15>>, <<16>>, UrlNone, "u3")
\* "title": null in the scraped JSON
KN == RawArticle(Null, <<14>>, "u9", Absent)
\* empty title and summary
KZ == RawArticle(<<>>, <<>>, "u10", Absent)

RECURSIVE SeqsUpTo(_, _)
SeqsUpTo(S, n) ==
    IF n = 0 THEN {<<>>}
    ELSE LET shorter == SeqsUpTo(S, n - 1)
         IN  shorter \cup {Append(s, x) : s \in {t \in shorter : Len(t) = n - 1}, x \in S}

Prefixes(s, n) == {SubSeq(s, 1, k) : k \in 0..Min(n, Len(s))}

----------------------------------------------------------------------------
(* Enrichment pipeline: process_merged_news_batch and the all-in-one run *)

Ev(op, g) == [op |-> op, article |-> g]

NoArticleData ==
    [title |-> Missing, summary |-> Missing, full_text |-> Missing,
     source_url |-> Absent, url |-> Absent,
     original_title |-> Missing, original_summary |-> Missing,
     importance_level |-> OptNone, keywords |-> OptNone, date_time |-> OptNone,
     embedding |-> NoEmbedding, embedding_model |-> Absent,
     processing_status |-> Absent, batch_number |-> NoNum,
     global_article_number |-> NoNum]

\* f"{article_info.get('url', 'N/A')}" in the extraction prompt
PromptUrl(article) ==
    IF article.url = Absent THEN "N/A"
    ELSE IF article.url = UrlNone THEN "None" ELSE article.url

\* the JSON objects the extraction provider may answer with for an article:
\* the fields as prompted, the same with "full_text": null, or that with an
\* empty title and summary as well
ExtractOutputs(article) ==
    LET full == [NoArticleData EXCEPT !.title = article.title,
                                      !.summary = article.summary,
                                      !.full_text = <<1>>,
                                      !.source_url = PromptUrl(article),
                                      !.importance_level = OptVal("int", 5, <<>>),
                                      !.keywords = OptVal("list", 0, <<1, 2>>),
                                      !.date_time = OptVal("str", NoNum, <<3>>)]
    IN  {full, [full EXCEPT !.full_text = Null],
         [full EXCEPT !.title = <<>>, !.summary = <<>>, !.full_text = Null]}

\* processed_data["original_title"] = ..., ["original_summary"] = ...
WithOriginals(processed_data, article) ==
    [processed_data EXCEPT !.original_title = article.title,
                           !.original_summary = article.summary]

\* the failures of process_article_with_mistral: success false from the
\* provider, JSONDecodeError, or JSON that is not an object
ExtractFailures == {"provider_error", "bad_json", "not_an_object"}

\* scrape_article_content fails, or its content cannot be read as markdown
ScrapeOutcomes == {"error", "unreadable", "content"}

\* vectors the embedding provider may return
EmbedVectors == {<<1, 2>>}

\* get_embeddings: success false, an empty list of vectors, or an exception
\* raised while the result is used
EmbedFailures == {"provider_error", "no_vectors", "raises"}

\* embedding_text = f"{title} {summary}".strip(), else full_text[:1000];
\* slicing None raises before the provider is called
EmbeddingTextRaises(data) ==
    /\ (IF data.title = Missing THEN <<>> ELSE Fmt(data.title)) \o
       (IF data.summary = Missing THEN <<>> ELSE Fmt(data.summary)) = <<>>
    /\ data.full_text = Null

InitStats == [successful |-> 0, failed |-> 0, errors |-> <<>>]

\* the error is appended but the failure is not counted
RecordFailure_uncounted(stats, g, reason) ==
    [stats EXCEPT !.errors = Append(@, [article |-> g, reason |-> reason])]

\* processing_stats["failed"] += 1; processing_stats["errors"].append(...)
RecordFailure(stats, g, reason) ==
    [stats EXCEPT !.failed = @ + 1,
                  !.errors = Append(@, [article |-> g, reason |-> reason])]

NoResult ==
    [success |-> FALSE, error |-> Absent, detailed_articles |-> <<>>,
     total_requested |-> 0, successful |-> 0, failed |-> 0, errors |-> <<>>,
     saved |-> FALSE, supabase_upload |-> NoUpload]

Failure(err) == [NoResult EXCEPT !.error = err]

GlobalArticleNum == bounds.start_idx + i + 1

CurrentArticle == batch_articles[i + 1]

\* the article is numbered by its position in the slice, not in the merged set
Finalize_slice_position(data) ==
    [data EXCEPT !.processing_status = "completed",
                 !.batch_number = IF mode = "batch" THEN batch_number ELSE NoNum,
                 !.global_article_number = i + 1]

\* "Add processing metadata": the article is stamped and collected
\* (processing_timestamp, a wall-clock reading, is not modelled)
Finalize(data) ==
    [data EXCEPT !.processing_status = "completed",
                 !.batch_number = IF mode = "batch" THEN batch_number ELSE NoNum,
                 !.global_article_number = GlobalArticleNum]

NoDetailedFile == [exists |-> FALSE, detailed_articles |-> <<>>, processing_stats |-> InitStats]

persistent == <<files, mergedFile, lastMerge, detailedFiles, store, uploadVars, runLog>>
loopVars == <<all_articles, bounds, batch_articles, i, article_data,
              detailed_articles, processing_stats>>

\* the batch number is validated only after the merge has run
InvalidBatch_after_merge(b) ==
    /\ pc = "idle"
    /\ b \notin 1..TotalBatches
    /\ \E m \in {merge_news_sources(files)} :
           /\ lastMerge' = m
           /\ mergedFile' = IF m.success THEN MergedFileOf(m) ELSE mergedFile
    /\ calls' = <<Ev("merge", 0)>>
    /\ pc' = "returned"
    /\ mode' = "batch"
    /\ batch_number' = b
    /\ result' = Failure("Batch number must be 1, 2, 3, or 4")
    /\ UNCHANGED <<files, runLog, detailedFiles, store, uploadVars, loopVars>>

\* process_merged_news_batch(b) with b not in [1, 2, 3, 4]
InvalidBatch(b) ==
    /\ pc = "idle"
    /\ b \notin 1..TotalBatches
    /\ pc' = "returned"
    /\ mode' = "batch"
    /\ batch_number' = b
    /\ result' = Failure("Batch number must be 1, 2, 3, or 4")
    /\ UNCHANGED <<persistent, loopVars, calls>>

\* the code both runs share up to the loop: merge, then set up the slice
StartRun(m, md, b, bnds, slice) ==
    /\ pc = "idle"
    /\ mode' = md
    /\ batch_number' = b
    /\ lastMerge' = m
    /\ IF ~m.success
       THEN /\ result' = Failure("Failed to merge news sources")
            /\ pc' = "returned"
            /\ calls' = <<Ev("merge", 0)>>
            /\ UNCHANGED <<mergedFile, loopVars>>
       ELSE /\ mergedFile' = MergedFileOf(m)
            /\ calls' = <<Ev("merge", 0), Ev("save_merged", 0)>>
            /\ all_articles' = m.news_articles
            /\ IF m.news_articles = <<>>
               THEN /\ result' = Failure("No articles found to process")
                    /\ pc' = "returned"
                    /\ UNCHANGED <<bounds, batch_articles, i, article_data,
                                   detailed_articles, processing_stats>>
               ELSE /\ bounds' = bnds
                    /\ batch_articles' = slice
                    /\ i' = 0
                    /\ detailed_articles' = <<>>
                    /\ processing_stats' = InitStats
                    /\ pc' = "loop"
                    /\ UNCHANGED <<article_data, result>>
    /\ UNCHANGED <<files, runLog, detailedFiles, store, uploadVars>>

\* process_merged_news_batch(b), b in 1..4, up to the loop
StartBatch(b) ==
    /\ pc = "idle"
    /\ b \in 1..TotalBatches
    /\ \E m \in {merge_news_sources(files)} :
           StartRun(m, "batch", b,
                    BatchBounds(b, Len(m.news_articles)),
                    BatchArticles(m.news_articles, b))

\* detailed_news_all_batches_endpoint up to the loop
StartAll ==
    /\ pc = "idle"
    /\ \E m \in {merge_news_sources(files)} :
           StartRun(m, "all", 0, AllBounds(Len(m.news_articles)), m.news_articles)

\* merge_news_endpoint
MergeEndpoint ==
    /\ pc = "idle"
    /\ \E m \in {merge_news_sources(files)} :
           /\ lastMerge' = m
           /\ mergedFile' = IF m.success THEN MergedFileOf(m) ELSE mergedFile
           /\ result' = [NoResult EXCEPT !.success = m.success, !.error = m.error]
    /\ pc' = "returned"
    /\ mode' = "merge"
    /\ UNCHANGED <<files, runLog, detailedFiles, store, uploadVars, batch_number, loopVars, calls>>

\* the for loop is exhausted
LoopExit ==
    /\ pc = "loop"
    /\ i >= Len(batch_articles)
    /\ pc' = "finish"
    /\ UNCHANGED <<persistent, mode, batch_number, loopVars, calls, result>>

\* article.get('title', 'N/A')[:60] with "title": null raises TypeError,
\* which the handler's outer except turns into the result
TitleRaises ==
    /\ pc = "loop"
    /\ i < Len(batch_articles)
    /\ CurrentArticle.title = Null
    /\ result' = Failure("Error processing batch")
    /\ pc' = "returned"
    /\ UNCHANGED <<persistent, mode, batch_number, loopVars, calls>>

\* url = article.get("url") or article.get("source_url")
ArticleUrl(article) ==
    IF TruthyUrl(article.url) THEN article.url ELSE article.source_url

\* "No URL found": count the failure and continue
NoUrl ==
    /\ pc = "loop"
    /\ i < Len(batch_articles)
    /\ CurrentArticle.title # Null
    /\ ~TruthyUrl(ArticleUrl(CurrentArticle))
    /\ processing_stats' = RecordFailure(processing_stats, GlobalArticleNum, "No URL found")
    /\ i' = i + 1
    /\ UNCHANGED <<persistent, pc, mode, batch_number, all_articles, bounds,
                   batch_articles, article_data, detailed_articles, calls, result>>

\* await self.scrape_article_content(url)
CallScrape ==
    /\ pc = "loop"
    /\ i < Len(batch_articles)
    /\ CurrentArticle.title # Null
    /\ TruthyUrl(ArticleUrl(CurrentArticle))
    /\ calls' = Append(calls, Ev("fetch", GlobalArticleNum))
    /\ pc' = "scrape"
    /\ UNCHANGED <<persistent, mode, batch_number, loopVars, result>>

\* a failure before Finalize: record it and continue with the next article
FailArticle(reason) ==
    /\ processing_stats' = RecordFailure(processing_stats, GlobalArticleNum, reason)
    /\ i' = i + 1
    /\ pc' = "loop"
    /\ UNCHANGED <<persistent, mode, batch_number, all_articles, bounds,
                   batch_articles, article_data, detailed_articles, calls, result>>

\* the article is collected but successful is not incremented
CollectArticle_uncounted(data) ==
    /\ detailed_articles' = Append(detailed_articles, Finalize(data))
    /\ calls' = Append(calls, Ev("sleep", GlobalArticleNum))
    /\ article_data' = NoArticleData
    /\ pc' = "sleep"
    /\ UNCHANGED <<persistent, mode, batch_number, all_articles, bounds,
                   batch_articles, i, result, processing_stats>>

\* the finalized article is collected and the run sleeps
CollectArticle(data) ==
    /\ detailed_articles' = Append(detailed_articles, Finalize(data))
    /\ processing_stats' = [processing_stats EXCEPT !.successful = @ + 1]
    /\ calls' = Append(calls, Ev("sleep", GlobalArticleNum))
    /\ article_data' = NoArticleData
    /\ pc' = "sleep"
    /\ UNCHANGED <<persistent, mode, batch_number, all_articles, bounds,
                   batch_articles, i, result>>

\* the scrape returns
ScrapeFails(outcome) ==
    /\ pc = "scrape"
    /\ outcome \in ScrapeOutcomes \ {"content"}
    /\ FailArticle(IF outcome = "error" THEN "Scraping failed"
                   ELSE "Markdown extraction failed")

ScrapeSucceeds ==
    /\ pc = "scrape"
    /\ calls' = Append(calls, Ev("extract", GlobalArticleNum))
    /\ pc' = "mistral"
    /\ UNCHANGED <<persistent, mode, batch_number, loopVars, result>>

\* process_article_with_mistral returns success false
MistralFails(failure) ==
    /\ pc = "mistral"
    /\ failure \in ExtractFailures
    /\ FailArticle("Mistral processing failed")

\* the enriched article is collected without any request to the embedding
\* provider
MistralSucceeds_no_provider_call(processed_data) ==
    /\ pc = "mistral"
    /\ processed_data \in ExtractOutputs(CurrentArticle)
    /\ CollectArticle(WithOriginals(processed_data, CurrentArticle))

\* process_article_with_mistral returns processed_data and
\* generate_article_embedding calls the provider
MistralSucceeds(processed_data) ==
    /\ pc = "mistral"
    /\ processed_data \in ExtractOutputs(CurrentArticle)
    /\ LET data == WithOriginals(processed_data, CurrentArticle)
       IN  IF EmbeddingTextRaises(data)
           THEN CollectArticle(data)
           ELSE /\ article_data' = data
                /\ calls' = Append(calls, Ev("embed", GlobalArticleNum))
                /\ pc' = "embed"
                /\ UNCHANGED <<persistent, mode, batch_number, all_articles, bounds,
                               batch_articles, i, detailed_articles,
                               processing_stats, result>>

\* an embedding failure treated like a Fetch or Extract failure
EmbedFails_dropped(failure) ==
    /\ pc = "embed"
    /\ failure \in EmbedFailures
    /\ FailArticle("Embedding failed")

\* generate_article_embedding returns success false: the article is kept as is
EmbedFails(failure) ==
    /\ pc = "embed"
    /\ failure \in EmbedFailures
    /\ CollectArticle(article_data)

\* generate_article_embedding attaches the vector
EmbedSucceeds(vector) ==
    /\ pc = "embed"
    /\ vector \in EmbedVectors
    /\ CollectArticle([article_data EXCEPT !.embedding = vector,
                                           !.embedding_model = "mistral-embed"])

\* await asyncio.sleep(1) returns; next iteration
SleepReturns ==
    /\ pc = "sleep"
    /\ i' = i + 1
    /\ pc' = "loop"
    /\ UNCHANGED <<persistent, mode, batch_number, all_articles, bounds,
                   batch_articles, article_data, detailed_articles,
                   processing_stats, calls, result>>

\* a rejected store write turns the whole run into a failure
Finish_upload_failure_fatal(outcome) ==
    /\ pc = "finish"
    /\ outcome \in StoreOutcomes
    /\ \E up \in {upsert_articles(store, detailed_articles, outcome)} :
       LET file == IF mode = "batch" THEN batch_number ELSE 0
           total == IF mode = "batch" THEN Len(batch_articles) ELSE bounds.total_articles
       IN  /\ detailedFiles' = [detailedFiles EXCEPT ![file] =
                                   [exists |-> TRUE,
                                    detailed_articles |-> detailed_articles,
                                    processing_stats |-> processing_stats]]
           /\ store' = up.table
           /\ upsertLog' = Append(upsertLog, UpsertEntry(detailed_articles, outcome, up))
           /\ calls' = calls \o <<Ev("save_detailed", 0)>> \o
                       (IF up.called THEN <<Ev("upsert", 0)>> ELSE <<>>)
           /\ result' = IF total = 0 \/ (up.called /\ ~up.ret.success)
                        THEN Failure("Error processing batch")
                        ELSE [success |-> TRUE, error |-> Absent,
                              detailed_articles |-> detailed_articles,
                              total_requested |-> total,
                              successful |-> processing_stats.successful,
                              failed |-> processing_stats.failed,
                              errors |-> processing_stats.errors,
                              saved |-> TRUE,
                              supabase_upload |-> up.ret]
    /\ pc' = "returned"
    /\ UNCHANGED <<files, runLog, mergedFile, lastMerge, mode, batch_number, loopVars,
                   row, all_batches>>

\* after the loop: save the checkpoint file, upsert, build the result; the
\* success_rate of the batch run divides by len(batch_articles); the data
\* directory is taken to be writable
Finish(outcome) ==
    /\ pc = "finish"
    /\ outcome \in StoreOutcomes
    /\ \E up \in {upsert_articles(store, detailed_articles, outcome)} :
       LET file == IF mode = "batch" THEN batch_number ELSE 0
           total == IF mode = "batch" THEN Len(batch_articles) ELSE bounds.total_articles
       IN  /\ detailedFiles' = [detailedFiles EXCEPT ![file] =
                                   [exists |-> TRUE,
                                    detailed_articles |-> detailed_articles,
                                    processing_stats |-> processing_stats]]
           /\ store' = up.table
           /\ upsertLog' = Append(upsertLog, UpsertEntry(detailed_articles, outcome, up))
           /\ calls' = calls \o <<Ev("save_detailed", 0)>> \o
                       (IF up.called THEN <<Ev("upsert", 0)>> ELSE <<>>)
           /\ result' = IF total = 0
                        THEN Failure("Error processing batch")
                        ELSE [success |-> TRUE, error |-> Absent,
                              detailed_articles |-> detailed_articles,
                              total_requested |-> total,
                              successful |-> processing_stats.successful,
                              failed |-> processing_stats.failed,
                              errors |-> processing_stats.errors,
                              saved |-> TRUE,
                              supabase_upload |-> up.ret]
    /\ pc' = "returned"
    /\ UNCHANGED <<files, runLog, mergedFile, lastMerge, mode, batch_number, loopVars,
                   row, all_batches>>

----------------------------------------------------------------------------
(* Specifications *)

\* most articles a source file holds
MaxPerSource == 3
\* most articles a source file holds when every article list is enumerated
MaxMergeLen == 2

\* the scraped lists a data directory may hold: a source file is a prefix of
\* one of the feeds of its source
DailystarFeeds == {<<KA, KD, KB, KC>>}
ProthomaloFeeds == {<<KF, KG, KE, KB>>, <<KG, KN, KC, KH>>, <<KP, KC>>}
MergePool == {KA, KB, KC, KN, KZ}

FileChoices(feeds) ==
    {NoFile} \cup {FileOf(s) : s \in UNION {Prefixes(feed, MaxPerSource) : feed \in feeds}}
AllFiles == {NoFile} \cup {FileOf(s) : s \in SeqsUpTo(MergePool, MaxMergeLen)}

InitRest ==
    /\ mergedFile = NoMergedFile
    /\ lastMerge = NoMerge
    /\ detailedFiles = [k \in 0..TotalBatches |-> NoDetailedFile]
    /\ store = {}
    /\ pc = "idle"
    /\ mode = "none"
    /\ batch_number = 0
    /\ all_articles = <<>>
    /\ bounds = NoBounds
    /\ batch_articles = <<>>
    /\ i = 0
    /\ article_data = NoArticleData
    /\ detailed_articles = <<>>
    /\ processing_stats = InitStats
    /\ calls = <<>>
    /\ result = NoResult
    /\ row = NoRow
    /\ upsertLog = <<>>
    /\ all_batches = <<>>
    /\ runLog = <<>>

\* one call of an entry point on a data directory
Init ==
    /\ files \in [dailystar : FileChoices(DailystarFeeds),
                  prothomalo : FileChoices(ProthomaloFeeds)]
    /\ InitRest

BatchArgs == 0..(TotalBatches + 1)

\* the answers the extraction provider may give to the request in flight
ExtractChoices == IF pc = "mistral" THEN ExtractOutputs(CurrentArticle) ELSE {}

Next ==
    \/ \E b \in BatchArgs : InvalidBatch(b)
    \/ \E b \in BatchArgs : StartBatch(b)
    \/ StartAll
    \/ MergeEndpoint
    \/ LoopExit
    \/ TitleRaises
    \/ NoUrl
    \/ CallScrape
    \/ \E o \in ScrapeOutcomes : ScrapeFails(o)
    \/ ScrapeSucceeds
    \/ \E f \in ExtractFailures : MistralFails(f)
    \/ \E d \in ExtractChoices : MistralSucceeds(d)
    \/ \E f \in EmbedFailures : EmbedFails(f)
    \/ \E v \in EmbedVectors : EmbedSucceeds(v)
    \/ SleepReturns
    \/ \E o \in StoreOutcomes : Finish(o)

Spec == Init /\ [][Next]_vars

\* merge_news_sources on every pair of source files over the article pool
InitMerge ==
    /\ files \in [dailystar : AllFiles, prothomalo : AllFiles]
    /\ InitRest

NextMerge == MergeEndpoint

SpecMerge == InitMerge /\ [][NextMerge]_vars

\* process_merged_news_batch on merged sets of every size up to MaxTotal;
\* the articles are pairwise dissimilar and none has a URL, so a run only
\* partitions, counts and reports
MaxTotal == 10

Plain(k) == RawArticle(<<20 + k>>, <<>>, UrlNone, Absent)

InitPartition ==
    /\ \E n \in 0..MaxTotal :
          files = [dailystar |-> FileOf([k \in 1..n |-> Plain(k)]),
                   prothomalo |-> NoFile]
    /\ InitRest

NextPartition ==
    \/ \E b \in BatchArgs : InvalidBatch(b)
    \/ \E b \in BatchArgs : StartBatch(b)
    \/ LoopExit
    \/ NoUrl
    \/ \E o \in StoreOutcomes : Finish(o)

SpecPartition == InitPartition /\ [][NextPartition]_vars

\* normalize_article_for_db on one article
NormalizeCall ==
    /\ pc = "idle"
    /\ row' = normalize_article_for_db(article_data)
    /\ pc' = "returned"
    /\ mode' = "normalize"
    /\ UNCHANGED <<files, runLog, mergedFile, lastMerge, detailedFiles, store, upsertLog,
                   all_batches, batch_number, loopVars, calls, result>>

\* longest embedding value given to the normalizer
MaxEmbLen == 3

\* what a text field, a URL field, an optional field and the embedding of
\* an article read from JSON may hold
TextValues == {Missing, Null, <<>>, <<1>>}
UrlValues == {Absent, UrlNone, "", "u1"}
OptValues ==
    {OptNone,
     OptVal("int", 3, <<>>), OptVal("int", 0, <<>>), OptVal("float", 27, <<>>),
     OptVal("str", 4, <<4>>), OptVal("str", NoNum, <<1, 0, 2>>),
     OptVal("str", NoNum, <<0>>), OptVal("str", NoNum, <<>>),
     OptVal("list", 0, <<1, 2>>), OptVal("list", 0, <<>>),
     OptVal("datetime", 7, <<>>)}
EmbeddingValues == {NoEmbedding, Null, NotIterable} \cup SeqsUpTo({0, 1}, MaxEmbLen)

NormalizeInputs ==
    {[NoArticleData EXCEPT !.title = t, !.full_text = f, !.source_url = su, !.url = u,
                           !.importance_level = o, !.keywords = o, !.date_time = o,
                           !.embedding = e] :
        t \in TextValues, f \in TextValues, su \in UrlValues, u \in {Absent, "u2"},
        o \in OptValues, e \in EmbeddingValues}

InitNormalize ==
    /\ files = [dailystar |-> NoFile, prothomalo |-> NoFile]
    /\ mergedFile = NoMergedFile
    /\ lastMerge = NoMerge
    /\ detailedFiles = [k \in 0..TotalBatches |-> NoDetailedFile]
    /\ store = {}
    /\ pc = "idle"
    /\ mode = "none"
    /\ batch_number = 0
    /\ all_articles = <<>>
    /\ bounds = NoBounds
    /\ batch_articles = <<>>
    /\ i = 0
    /\ article_data \in NormalizeInputs
    /\ detailed_articles = <<>>
    /\ processing_stats = InitStats
    /\ calls = <<>>
    /\ result = NoResult
    /\ row = NoRow
    /\ upsertLog = <<>>
    /\ all_batches = <<>>
    /\ runLog = <<>>

NextNormalize == NormalizeCall

SpecNormalize == InitNormalize /\ [][NextNormalize]_vars

\* an enriched article as the checkpoint files hold it
Enriched(title, source_url) ==
    [NoArticleData EXCEPT !.title = title, !.summary = <<1>>, !.full_text = <<1>>,
                          !.source_url = source_url,
                          !.processing_status = "completed"]

E1 == Enriched(<<1>>, "u1")
\* the article of E1's source_url as a later run enriched it
E1b == Enriched(<<2>>, "u1")
E2 == Enriched(<<3>>, "u2")
\* an article the extraction left without full_text
EBad == [Enriched(<<4>>, "u3") EXCEPT !.full_text = Null]

\* most upsert_articles calls in a behaviour
MaxCalls == 3
\* longest article list given to a single upsert_articles call
MaxUpsertLen == 3

\* supabase_service.upsert_articles(articles), whoever calls it
UpsertCall(articles, outcome) ==
    /\ pc = "idle"
    /\ Len(upsertLog) < MaxCalls
    /\ outcome \in StoreOutcomes
    /\ \E up \in {upsert_articles(store, articles, outcome)} :
           /\ store' = up.table
           /\ upsertLog' = Append(upsertLog, UpsertEntry(articles, outcome, up))
           /\ result' = [NoResult EXCEPT !.success = up.ret.success,
                                         !.error = up.ret.error,
                                         !.supabase_upload = up.ret]
    /\ mode' = "upsert"
    /\ UNCHANGED <<files, runLog, mergedFile, lastMerge, detailedFiles, row, all_batches,
                   pc, batch_number, loopVars, calls>>

\* one upsert_articles call on every article list up to MaxUpsertLen
UpsertInputs == SeqsUpTo({E1, E1b, E2, EBad}, MaxUpsertLen)

InitUpsert ==
    /\ files = [dailystar |-> NoFile, prothomalo |-> NoFile]
    /\ InitRest

NextUpsert ==
    \E articles \in UpsertInputs : \E o \in StoreOutcomes :
        upsertLog = <<>> /\ UpsertCall(articles, o)

SpecUpsert == InitUpsert /\ [][NextUpsert]_vars

\* sequences of upsert_articles calls with repeated and overlapping lists
StoreInputs == {<<E1, E2>>, <<E1b>>, <<EBad, E2>>, <<E1, E1b>>, <<EBad>>}

NextStore ==
    \E articles \in StoreInputs : \E o \in StoreOutcomes : UpsertCall(articles, o)

SpecStore == InitUpsert /\ [][NextStore]_vars

----------------------------------------------------------------------------
(* Upload endpoints: upload_batch1_to_supabase, upload_all_batches_to_supabase *)

\* the title counts only for an article that has no source_url and no url
TrimmedTitle_fallback_only(article) ==
    IF TruthyUrl(IF TruthyUrl(article.source_url) THEN article.source_url ELSE article.url)
    THEN <<>>
    ELSE IF article.title = Missing THEN <<>> ELSE article.title

\* article.get("title", "").strip() of an article whose title is not None
TrimmedTitle(article) == IF article.title = Missing THEN <<>> ELSE article.title

\* article.get("source_url") or article.get("url")
UploadUrl(article) ==
    IF TruthyUrl(article.source_url) THEN article.source_url ELSE article.url

NoSeen == [kept |-> <<>>, seen_urls |-> {}, seen_titles |-> {}]

\* only the source_url is compared with what was seen
RECURSIVE IdentityPass_url_only(_, _)
IdentityPass_url_only(articles, acc) ==
    IF articles = <<>> THEN acc
    ELSE LET article == Head(articles)
             source_url == UploadUrl(article)
             title == TrimmedTitle(article)
             is_duplicate == TruthyUrl(source_url) /\ source_url \in acc.seen_urls
         IN  IdentityPass_url_only(Tail(articles),
                 IF is_duplicate THEN acc
                 ELSE [kept |-> Append(acc.kept, article),
                       seen_urls |-> IF TruthyUrl(source_url)
                                     THEN acc.seen_urls \cup {source_url}
                                     ELSE acc.seen_urls,
                       seen_titles |-> IF title # <<>>
                                       THEN acc.seen_titles \cup {title}
                                       ELSE acc.seen_titles])

\* the loop over the articles of one file: an article whose source_url or
\* whose title was seen is skipped, any other is kept and remembered
RECURSIVE IdentityPass(_, _)
IdentityPass(articles, acc) ==
    IF articles = <<>> THEN acc
    ELSE LET article == Head(articles)
             source_url == UploadUrl(article)
             title == TrimmedTitle(article)
             is_duplicate ==
                 \/ TruthyUrl(source_url) /\ source_url \in acc.seen_urls
                 \/ title # <<>> /\ title \in acc.seen_titles
         IN  IdentityPass(Tail(articles),
                 IF is_duplicate THEN acc
                 ELSE [kept |-> Append(acc.kept, article),
                       seen_urls |-> IF TruthyUrl(source_url)
                                     THEN acc.seen_urls \cup {source_url}
                                     ELSE acc.seen_urls,
                       seen_titles |-> IF title # <<>>
                                       THEN acc.seen_titles \cup {title}
                                       ELSE acc.seen_titles])

\* for batch_num in range(1, 5): the latest file of every batch, the seen
\* sets carried from file to file
RECURSIVE ScanBatchFiles(_, _, _)
ScanBatchFiles(dfiles, batch_num, acc) ==
    IF batch_num > TotalBatches THEN acc
    ELSE ScanBatchFiles(dfiles, batch_num + 1,
             IF dfiles[batch_num].exists
             THEN IdentityPass(dfiles[batch_num].detailed_articles, acc)
             ELSE acc)

\* the articles upload_all_batches_to_supabase scans: those of the
\* all_batches file if it has any, else those of the batch files 1..4
RECURSIVE BatchFileArticles(_, _)
BatchFileArticles(dfiles, batch_num) ==
    IF batch_num > TotalBatches THEN <<>>
    ELSE (IF dfiles[batch_num].exists THEN dfiles[batch_num].detailed_articles ELSE <<>>)
         \o BatchFileArticles(dfiles, batch_num + 1)

ScannedArticles(dfiles) ==
    IF dfiles[0].exists /\ dfiles[0].detailed_articles # <<>>
    THEN dfiles[0].detailed_articles
    ELSE BatchFileArticles(dfiles, 1)

\* .strip() of a title that is None raises AttributeError
StripRaises(articles) == \E k \in 1..Len(articles) : articles[k].title = Null

\* the result of an upload endpoint after its upsert_articles call: the
\* error of a failed upload is inside upload_result only
UploadResult(articles, ret) ==
    [NoResult EXCEPT !.success = ret.success,
                     !.total_requested = Len(articles),
                     !.supabase_upload = ret]

\* an upload endpoint returns without having called upsert_articles
UploadReturns(md, res) ==
    /\ pc = "idle"
    /\ pc' = "returned"
    /\ mode' = md
    /\ result' = res
    /\ UNCHANGED <<files, runLog, mergedFile, lastMerge, detailedFiles, store, uploadVars,
                   batch_number, loopVars, calls>>

\* an upload endpoint calls upsert_articles(articles) and returns
UploadUpserts(md, articles, outcome) ==
    /\ pc = "idle"
    /\ pc' = "returned"
    /\ mode' = md
    /\ all_batches' = articles
    /\ \E up \in {upsert_articles(store, articles, outcome)} :
           /\ store' = up.table
           /\ upsertLog' = Append(upsertLog, UpsertEntry(articles, outcome, up))
           /\ result' = UploadResult(articles, up.ret)
    /\ UNCHANGED <<files, runLog, mergedFile, lastMerge, detailedFiles, row,
                   batch_number, loopVars, calls>>

upload_batch1_to_supabase(outcome) ==
    IF ~detailedFiles[1].exists
    THEN UploadReturns("upload_batch1", Failure("No batch1 files found"))
    ELSE IF detailedFiles[1].detailed_articles = <<>>
    THEN UploadReturns("upload_batch1", Failure("No detailed articles found in file"))
    ELSE UploadUpserts("upload_batch1", detailedFiles[1].detailed_articles, outcome)

upload_all_batches_to_supabase(outcome) ==
    LET scanned == ScannedArticles(detailedFiles)
        pass == IF detailedFiles[0].exists /\ detailedFiles[0].detailed_articles # <<>>
                THEN IdentityPass(scanned, NoSeen)
                ELSE ScanBatchFiles(detailedFiles, 1, NoSeen)
    IN  IF StripRaises(scanned)
        THEN UploadReturns("upload_all",
                           Failure("'NoneType' object has no attribute 'strip'"))
        ELSE IF pass.kept = <<>>
        THEN UploadReturns("upload_all", Failure("No detailed articles found in any batch files or complete all_batches file"))
        ELSE UploadUpserts("upload_all", pass.kept, outcome)

\* longest all_batches file
MaxUploadLen == 2

\* same title as E1 under another source_url
ET == Enriched(<<1>>, "u4")
\* "title": null
EN == Enriched(Null, "u5")
\* neither a title nor a URL
ENoId == [Enriched(Missing, Absent) EXCEPT !.url = UrlNone]

UploadPool == {E1, E1b, ET, EN, ENoId}

DetailedFileOf(articles) ==
    [exists |-> TRUE, detailed_articles |-> articles, processing_stats |-> InitStats]

\* a batch file: none, one without articles, or one with a single article
BatchFileChoices ==
    {NoDetailedFile, DetailedFileOf(<<>>)} \cup {DetailedFileOf(<<a>>) : a \in UploadPool}

\* the checkpoint files an upload endpoint may find: an all_batches file
\* with up to MaxUploadLen articles and no batch files, or batch files and
\* no (or an empty) all_batches file
UploadFileChoices ==
    {[k \in 0..TotalBatches |->
         IF k = 0 THEN DetailedFileOf(a) ELSE NoDetailedFile] :
        a \in SeqsUpTo(UploadPool, MaxUploadLen)}
    \cup
    {[k \in 0..TotalBatches |-> IF k = 0 THEN f ELSE bf[k]] :
        f \in {NoDetailedFile, DetailedFileOf(<<>>)},
        bf \in [1..TotalBatches -> BatchFileChoices]}

InitUpload ==
    /\ detailedFiles \in UploadFileChoices
    /\ files = [dailystar |-> NoFile, prothomalo |-> NoFile]
    /\ mergedFile = NoMergedFile
    /\ lastMerge = NoMerge
    /\ store = {}
    /\ pc = "idle"
    /\ mode = "none"
    /\ batch_number = 0
    /\ all_articles = <<>>
    /\ bounds = NoBounds
    /\ batch_articles = <<>>
    /\ i = 0
    /\ article_data = NoArticleData
    /\ detailed_articles = <<>>
    /\ processing_stats = InitStats
    /\ calls = <<>>
    /\ result = NoResult
    /\ row = NoRow
    /\ upsertLog = <<>>
    /\ all_batches = <<>>
    /\ runLog = <<>>

NextUpload ==
    \/ \E o \in StoreOutcomes : upload_batch1_to_supabase(o)
    \/ \E o \in StoreOutcomes : upload_all_batches_to_supabase(o)

SpecUpload == InitUpload /\ [][NextUpload]_vars

----------------------------------------------------------------------------
(* Claims *)

RECURSIVE ConcatBatches(_, _)
ConcatBatches(articles, b) ==
    IF b > TotalBatches THEN <<>>
    ELSE BatchArticles(articles, b) \o ConcatBatches(articles, b + 1)

\* C1: for a merged sequence of n >= 1 articles the slices of batches 1, 2,
\* 3, 4, concatenated in batch order, are the whole sequence, and every
\* position 0..n-1 lies in the [start, end) range of exactly one batch.
C1_BatchesPartition ==
    (pc # "idle" /\ all_articles # <<>>) =>
        /\ ConcatBatches(all_articles, 1) = all_articles
        /\ \A k \in 0..(Len(all_articles) - 1) :
              Cardinality({b \in 1..TotalBatches :
                              /\ StartIdx(b, Len(all_articles)) <= k
                              /\ k < EndIdx(b, Len(all_articles))}) = 1
        /\ mode = "batch" =>
              batch_articles = PySlice(all_articles, bounds.start_idx, bounds.end_idx)

\* a run of the last batch of ten articles: slices of 3, 3, 3 and 1
C1_Witness ==
    /\ pc = "returned"
    /\ mode = "batch"
    /\ batch_number = TotalBatches
    /\ Len(all_articles) = 10
    /\ Len(batch_articles) = 1

\* C2: a batch run with a valid batch number on a non-empty merged set
\* returns success = true whatever happened to the articles and the store.
C2_ValidBatchSucceeds ==
    (pc = "returned" /\ mode = "batch" /\ batch_number \in 1..TotalBatches
        /\ all_articles # <<>>) => result.success

\* the stages issued for the article with global number g
EventsOf(g) == {calls[k].op : k \in {m \in 1..Len(calls) : calls[m].article = g}}

Errors == processing_stats.errors

\* the stages a failure reason leaves behind
StagesBefore(reason) ==
    IF reason = "No URL found" THEN {}
    ELSE IF reason = "Mistral processing failed" THEN {"fetch", "extract"}
    ELSE {"fetch"}

\* a step in which the article in hand fails at Fetch or at Extract
FetchOrExtractFails ==
    \/ pc = "loop" /\ pc' = "loop"
    \/ pc = "scrape" /\ pc' = "loop"
    \/ pc = "mistral" /\ pc' = "loop"

C3_FailureStep ==
    FetchOrExtractFails =>
        /\ processing_stats'.failed = processing_stats.failed + 1
        /\ processing_stats'.successful = processing_stats.successful
        /\ Len(Errors') = Len(Errors) + 1
        /\ SubSeq(Errors', 1, Len(Errors)) = Errors
        /\ Errors'[Len(Errors')].article = GlobalArticleNum
        /\ calls' = calls
        /\ detailed_articles' = detailed_articles
        /\ i' = i + 1

C3_FailedArticles ==
    \A k \in 1..Len(Errors) :
        /\ EventsOf(Errors[k].article) = StagesBefore(Errors[k].reason)
        /\ \A d \in 1..Len(detailed_articles) :
              detailed_articles[d].global_article_number # Errors[k].article
        /\ \A m \in 1..Len(Errors) : Errors[m].article = Errors[k].article => m = k

\* a finished run of five articles of which only article 2 has no URL and
\* no other article failed at Fetch or Extract
C3_ExampleCase ==
    /\ pc = "returned"
    /\ result.saved
    /\ Len(batch_articles) = 5
    /\ \A k \in 1..5 :
          IF k = 2 THEN ~TruthyUrl(ArticleUrl(batch_articles[k]))
          ELSE "sleep" \in EventsOf(bounds.start_idx + k)

\* C3: an article that fails at Fetch (no URL, scrape failure) or at Extract
\* adds exactly one to failed and one error entry with its global number,
\* has no later stage issued, is not in detailed_articles, and the loop
\* moves to the next article; five articles of which only the second lacks
\* a URL end with failed = 1, successful = 4, success = true.
C3_FailureIsolated ==
    /\ [][C3_FailureStep]_vars
    /\ [](C3_FailedArticles)
    /\ [](C3_ExampleCase =>
            /\ result.success
            /\ result.failed = 1
            /\ result.successful = 4
            /\ result.errors = <<[article |-> bounds.start_idx + 2, reason |-> "No URL found"]>>)

C3_Witness ==
    /\ C3_ExampleCase
    /\ result.success
    /\ result.failed = 1

LastDetailed == detailed_articles[Len(detailed_articles)]

\* a step in which generate_article_embedding returns
EmbedReturnsStep == pc = "embed" /\ pc' # "embed"

C4_EmbedStep ==
    EmbedReturnsStep =>
        /\ Len(detailed_articles') = Len(detailed_articles) + 1
        /\ SubSeq(detailed_articles', 1, Len(detailed_articles)) = detailed_articles
        /\ LastDetailed'.global_article_number = GlobalArticleNum
        /\ LastDetailed'.processing_status = "completed"
        /\ processing_stats'.successful = processing_stats.successful + 1
        /\ processing_stats'.failed = processing_stats.failed
        /\ Errors' = Errors
        /\ (\E f \in EmbedFailures : EmbedFails(f)) =>
              /\ LastDetailed'.embedding = NoEmbedding
              /\ LastDetailed'.embedding_model = Absent

\* C4: when Embed fails for an article that passed Fetch and Extract, the
\* article is finalized, appended to detailed_articles and counted in
\* successful, without an embedding; failed and the error list do not change.
C4_EmbedFailureKeepsArticle == [][C4_EmbedStep]_vars

\* an article whose embedding was requested is collected without one
C4_Witness ==
    /\ pc = "sleep"
    /\ "embed" \in EventsOf(GlobalArticleNum)
    /\ LastDetailed.global_article_number = GlobalArticleNum
    /\ LastDetailed.embedding = NoEmbedding

C5_InvalidStep ==
    (pc = "idle" /\ mode' = "batch" /\ batch_number' \notin 1..TotalBatches) =>
        /\ pc' = "returned"
        /\ ~result'.success
        /\ result'.error # Absent
        /\ calls' = calls
        /\ UNCHANGED <<files, mergedFile, lastMerge, detailedFiles, store, upsertLog>>

\* C5: a batch number outside 1..4 is answered with success = false and an
\* error before anything else happens: no merge, no file written, no
\* collaborator called, nothing written to the store.
C5_InvalidBatchNoEffect ==
    /\ [][C5_InvalidStep]_vars
    /\ []((pc = "returned" /\ mode = "batch" /\ batch_number \notin 1..TotalBatches)
            => (calls = <<>> /\ ~mergedFile.exists /\ lastMerge = NoMerge))

C5_Witness ==
    /\ pc = "returned"
    /\ mode = "batch"
    /\ batch_number = TotalBatches + 1
    /\ files.dailystar.news_articles # <<>>

\* C6: in a batch run every collected article has processing_status
\* "completed", the batch number of the run, and as global_article_number
\* its 1-based position in the merged sequence; the numbers increase
\* strictly, lie in the slice of the run and in no other batch's slice.
C6_FinalizedMetadata ==
    mode = "batch" =>
        \A d \in 1..Len(detailed_articles) :
            LET a == detailed_articles[d]
                g == a.global_article_number
            IN  /\ a.processing_status = "completed"
                /\ a.batch_number = batch_number
                /\ g \in (bounds.start_idx + 1)..bounds.end_idx
                /\ g \in 1..Len(all_articles)
                /\ a.original_title = all_articles[g].title
                /\ a.original_summary = all_articles[g].summary
                /\ d > 1 => detailed_articles[d - 1].global_article_number < g
                /\ \A b \in (1..TotalBatches) \ {batch_number} :
                      g \notin (StartIdx(b, Len(all_articles)) + 1)..EndIdx(b, Len(all_articles))

\* batch 2 of a set with two-article slices returns both of its articles
C6_Witness ==
    /\ pc = "returned"
    /\ mode = "batch"
    /\ batch_number = 2
    /\ result.success
    /\ Len(result.detailed_articles) = 2
    /\ result.detailed_articles[1].global_article_number = 3
    /\ result.detailed_articles[2].global_article_number = 4

\* articles of the slice handled so far
Handled == IF pc = "sleep" THEN i + 1 ELSE i

\* C7: after k articles of the slice have been handled successful + failed
\* = k, the error entries number failed and the collected articles number
\* successful; at completion successful + failed is the reported total, the
\* slice length, and the error entries are in increasing article order.
C7_StatsConsistent ==
    (mode \in {"batch", "all"} /\ batch_number \in 0..TotalBatches) =>
        /\ processing_stats.successful + processing_stats.failed = Handled
        /\ Len(Errors) = processing_stats.failed
        /\ Len(detailed_articles) = processing_stats.successful
        /\ \A k \in 2..Len(Errors) : Errors[k - 1].article < Errors[k].article
        /\ pc = "finish" => Handled = Len(batch_articles)
        /\ (pc = "returned" /\ result.success) =>
              /\ result.successful + result.failed = result.total_requested
              /\ result.total_requested = Len(batch_articles)
              /\ result.successful = Len(result.detailed_articles)
              /\ result.failed = Len(result.errors)

C7_Witness ==
    /\ pc = "returned"
    /\ result.success
    /\ result.failed >= 2
    /\ result.successful >= 1

\* the score find_duplicates computes for the articles at indices a and b
ScoreOf(a, b) ==
    calculate_text_similarity(ArticleText(lastMerge.all_articles[a + 1]),
                              ArticleText(lastMerge.all_articles[b + 1]))

\* score >= 0.85, on the squared score: num/den >= 289/400
OverThreshold(s) == 400 * s.num >= 289 * s.den

Dups == lastMerge.duplicates
Indices == 0..(Len(lastMerge.all_articles) - 1)
RemovedIndices == {Dups[k][2] : k \in 1..Len(Dups)}
KeptSet == {lastMerge.kept[k] : k \in 1..Len(lastMerge.kept)}

\* C8: find_duplicates returns exactly the triples (i, j, score), i < j, of
\* the pairs whose title+summary score is at least the threshold 0.85, each
\* pair once, in the order the two loops visit them.
C8_DuplicatesExact ==
    lastMerge.success =>
        /\ \A k \in 1..Len(Dups) :
              /\ Dups[k][1] \in Indices
              /\ Dups[k][2] \in Indices
              /\ Dups[k][1] < Dups[k][2]
              /\ Dups[k][3] = ScoreOf(Dups[k][1], Dups[k][2])
              /\ OverThreshold(Dups[k][3])
        /\ \A a \in Indices : \A b \in Indices :
              (a < b /\ OverThreshold(ScoreOf(a, b))) =>
                  \E k \in 1..Len(Dups) : Dups[k][1] = a /\ Dups[k][2] = b
        /\ \A k \in 2..Len(Dups) :
              \/ Dups[k - 1][1] < Dups[k][1]
              \/ Dups[k - 1][1] = Dups[k][1] /\ Dups[k - 1][2] < Dups[k][2]

\* a merge with an emitted pair and a pair that scores below the threshold
\* without scoring zero
C8_Witness ==
    /\ lastMerge.success
    /\ Len(Dups) >= 1
    /\ \E a \in Indices : \E b \in Indices :
          /\ a < b
          /\ ScoreOf(a, b).num > 0
          /\ ~OverThreshold(ScoreOf(a, b))

\* C9: the merged output is the input without the indices that are the
\* second element of a pair, in input order; an index that is second in
\* several pairs is removed once, an index that is only ever first is kept.
C9_SurvivorsAreComplement ==
    lastMerge.success =>
        /\ KeptSet = Indices \ RemovedIndices
        /\ \A k \in 2..Len(lastMerge.kept) : lastMerge.kept[k - 1] < lastMerge.kept[k]
        /\ Len(lastMerge.news_articles) = Len(lastMerge.kept)
        /\ Len(lastMerge.news_articles) =
              Len(lastMerge.all_articles) - Cardinality(RemovedIndices)
        /\ \A k \in 1..Len(lastMerge.kept) :
              lastMerge.news_articles[k] = lastMerge.all_articles[lastMerge.kept[k] + 1]
        /\ mergedFile.exists /\ mergedFile.news_articles = lastMerge.news_articles

\* an index that is second in two pairs, and one that is first but never second
C9_Witness ==
    /\ lastMerge.success
    /\ \E k \in 1..Len(Dups) : \E m \in 1..Len(Dups) :
          k # m /\ Dups[k][2] = Dups[m][2]
    /\ \E k \in 1..Len(Dups) : Dups[k][1] \in KeptSet

\* C10 as stated: of every emitted pair the earlier article is in the
\* output and the later one is not.
C10_EarlierAlwaysSurvives ==
    lastMerge.success =>
        \A k \in 1..Len(Dups) :
            Dups[k][1] \in KeptSet /\ Dups[k][2] \notin KeptSet

\* C10 amended: of every emitted pair (i, j) the later article j is not in
\* the output, and the earlier article i is in the output exactly when i is
\* not itself the later article of an emitted pair; Daily Star articles
\* precede Prothom Alo articles in the merged input.
C10_LaterRemovedEarlierUnlessRemoved ==
    lastMerge.success =>
        /\ \A k \in 1..Len(Dups) :
              /\ Dups[k][2] \notin KeptSet
              /\ Dups[k][1] \in KeptSet <=>
                    ~(\E m \in 1..Len(Dups) : Dups[m][2] = Dups[k][1])
        /\ \A a \in Indices : \A b \in Indices :
              (a < b /\ lastMerge.all_articles[a + 1].source_file = "prothomalo") =>
                  lastMerge.all_articles[b + 1].source_file = "prothomalo"

\* an emitted pair whose earlier article is itself removed
C10_Witness ==
    /\ lastMerge.success
    /\ \E k \in 1..Len(Dups) : \E m \in 1..Len(Dups) :
          /\ Dups[m][2] = Dups[k][1]
          /\ Dups[k][1] \notin KeptSet
          /\ Dups[k][2] \notin KeptSet

\* C11: when the merged input is three articles that are pairwise at or
\* above the threshold the output is exactly the article at index 0; and
\* for any indices a < b < c with score(a,b) and score(a,c) at or above the
\* threshold both b and c are removed, whatever score(b,c) is.
C11_ChainKeepsOnlyFirst ==
    lastMerge.success =>
        /\ (/\ Len(lastMerge.all_articles) = 3
            /\ OverThreshold(ScoreOf(0, 1))
            /\ OverThreshold(ScoreOf(0, 2))
            /\ OverThreshold(ScoreOf(1, 2))) =>
               /\ lastMerge.kept = <<0>>
               /\ lastMerge.news_articles = <<lastMerge.all_articles[1]>>
        /\ \A a \in Indices : \A b \in Indices : \A c \in Indices :
              (/\ a < b
               /\ b < c
               /\ OverThreshold(ScoreOf(a, b))
               /\ OverThreshold(ScoreOf(a, c))) =>
                  (b \notin KeptSet /\ c \notin KeptSet)

\* three articles of which the first is similar to both others while the
\* two others, compared alone, are below the threshold: only index 0 is kept
C11_Witness ==
    /\ lastMerge.success
    /\ Len(lastMerge.all_articles) = 3
    /\ OverThreshold(ScoreOf(0, 1))
    /\ OverThreshold(ScoreOf(0, 2))
    /\ ~OverThreshold(ScoreOf(1, 2))
    /\ lastMerge.kept = <<0>>

\* the articles a source file offers to the merge
Offered(file) == IF file.exists THEN file.news_articles ELSE <<>>

\* C12: merge_news_sources fails only when there is no source data at all:
\* whenever the latest file of at least one source holds articles the merge
\* succeeds, and its output is drawn from the articles of the available
\* sources, Daily Star first; the Prothom Alo file alone is enough.
C12_MergeFailsOnlyWithoutData ==
    (pc = "returned" /\ mode = "merge") =>
        /\ (Offered(files.dailystar) # <<>> \/ Offered(files.prothomalo) # <<>>) =>
              /\ lastMerge.success
              /\ result.success
              /\ Len(lastMerge.all_articles) =
                    Len(Offered(files.dailystar)) + Len(Offered(files.prothomalo))
              /\ lastMerge.news_articles # <<>>
        /\ (Offered(files.dailystar) = <<>> /\ Offered(files.prothomalo) = <<>>) =>
              ~lastMerge.success

\* a text field that is there and not empty
PresentText(v) == v \notin {Missing, Null, <<>>}
\* a URL field that is there and not empty
PresentUrl(u) == u \notin {Absent, UrlNone, ""}
\* source_url, falling back to url
IdentityUrl(a) == IF PresentUrl(a.source_url) THEN a.source_url ELSE a.url

Normalized == pc = "returned" /\ mode = "normalize"

\* C13: normalize_article_for_db returns None exactly when title, full_text
\* or source_url (falling back to url) is absent or empty; when the three
\* are present it returns a row carrying them, and an optional field that
\* cannot be used is nulled (importance_level, keywords, date_time) or left
\* out (embedding) without rejecting the row.
C13_NullIffCriticalMissing ==
    Normalized =>
        /\ row.valid <=> (/\ PresentText(article_data.title)
                          /\ PresentText(article_data.full_text)
                          /\ PresentUrl(IdentityUrl(article_data)))
        /\ ~row.valid => row = NoRow
        /\ row.valid =>
              /\ row.title = article_data.title
              /\ row.full_text = article_data.full_text
              /\ row.source_url = IdentityUrl(article_data)
              /\ row.importance_level.kind \in {"int", "none"}
              /\ row.keywords.kind \in {"list", "none"}
              /\ row.date_time.kind \in {"str", "none"}

\* a row for an article whose importance_level is a string that is not a
\* number and whose embedding is too short
C13_Witness ==
    /\ Normalized
    /\ row.valid
    /\ article_data.importance_level = OptVal("str", NoNum, <<1, 0, 2>>)
    /\ row.importance_level = OptNone
    /\ article_data.embedding = <<1>>
    /\ article_data.source_url = UrlNone
    /\ row.source_url = "u2"

\* every element converts to a float and the length is the required dimension
UsableEmbedding(e) ==
    /\ Len(e) = RequiredVectorDimension
    /\ \A k \in 1..Len(e) : e[k] >= 1

\* C14: a row has an embedding only if the article's embedding has exactly
\* the required dimension and every element converts to a float, and then
\* it is that vector; any other embedding is left out of the row, and the
\* row is returned all the same.
C14_EmbeddingOnlyIfDimension ==
    Normalized =>
        /\ row.embedding # NoEmbedding =>
              (row.valid /\ UsableEmbedding(article_data.embedding)
                 /\ row.embedding = article_data.embedding)
        /\ (row.valid /\ UsableEmbedding(article_data.embedding)) =>
              row.embedding = article_data.embedding
        /\ (/\ PresentText(article_data.title)
            /\ PresentText(article_data.full_text)
            /\ PresentUrl(IdentityUrl(article_data))) => row.valid

\* a row returned without the too long, all-numeric embedding of its article
C14_Witness ==
    /\ Normalized
    /\ row.valid
    /\ Len(article_data.embedding) = RequiredVectorDimension + 1
    /\ \A k \in 1..Len(article_data.embedding) : article_data.embedding[k] >= 1
    /\ row.embedding = NoEmbedding

LastUpsert == upsertLog[Len(upsertLog)]

\* the articles of a list that have the three critical fields, in list order
RECURSIVE WritableArticles(_)
WritableArticles(articles) ==
    IF articles = <<>> THEN <<>>
    ELSE (IF /\ PresentText(Head(articles).title)
             /\ PresentText(Head(articles).full_text)
             /\ PresentUrl(IdentityUrl(Head(articles)))
          THEN <<Head(articles)>> ELSE <<>>) \o WritableArticles(Tail(articles))

\* the source_urls a row sequence writes
UrlsOf(rows) == {rows[k].source_url : k \in 1..Len(rows)}

\* C15: upsert_articles normalizes every article and hands the store the
\* non-null rows, in input order, in one upsert keyed on source_url; when
\* the store accepts them it returns success = true and count = the number
\* of rows; when no article gives a row (an empty list included) it returns
\* success = false with a "No valid rows" error and the store is not called.
C15_UpsertWritesValidRows ==
    (mode = "upsert" /\ Len(upsertLog) = 1) =>
        LET e == LastUpsert
            writable == WritableArticles(e.articles)
        IN  /\ Len(e.rows) = Len(writable)
            /\ \A k \in 1..Len(writable) :
                  /\ e.rows[k] = normalize_article_for_db(writable[k])
                  /\ e.rows[k].title = writable[k].title
                  /\ e.rows[k].source_url = IdentityUrl(writable[k])
            /\ e.called <=> writable # <<>>
            /\ writable = <<>> =>
                  /\ ~e.ret.success
                  /\ e.ret.error = "No valid rows to upsert"
                  /\ store = {}
            /\ (e.called /\ e.outcome = "ok") =>
                  /\ e.ret.success
                  /\ e.ret.count = Len(writable)
                  /\ {x.source_url : x \in store} = UrlsOf(e.rows)
            /\ (e.called /\ e.outcome = "error") =>
                  /\ ~e.ret.success
                  /\ store = {}
            /\ result.success = e.ret.success

\* a list whose first and last article give a row and whose middle one does not
C15_Witness ==
    /\ mode = "upsert"
    /\ Len(upsertLog) = 1
    /\ LastUpsert.articles = <<E1, EBad, E2>>
    /\ LastUpsert.ret.success
    /\ LastUpsert.ret.count = 2
    /\ Cardinality(store) = 2

\* the successful calls that wrote a row with source_url u
WritesOf(u) ==
    {k \in 1..Len(upsertLog) :
        upsertLog[k].ret.success /\ u \in UrlsOf(upsertLog[k].rows)}

\* the row call k wrote last for source_url u
RowWritten(k, u) ==
    LET rows == upsertLog[k].rows
        last == CHOOSE j \in 1..Len(rows) :
                    /\ rows[j].source_url = u
                    /\ \A m \in (j + 1)..Len(rows) : rows[m].source_url # u
    IN  rows[last]

\* C16: after any sequence of upsert_articles calls the store holds at most
\* one row per source_url, it holds a row for exactly the source_urls that a
\* successful call wrote, and the row held for a source_url is the one of
\* the most recent successful call that contained it.
C16_OneRowPerSourceUrl ==
    mode = "upsert" =>
        /\ \A x \in store : \A y \in store : x.source_url = y.source_url => x = y
        /\ \A x \in store :
              /\ WritesOf(x.source_url) # {}
              /\ LET k == CHOOSE n \in WritesOf(x.source_url) :
                               \A m \in WritesOf(x.source_url) : m <= n
                 IN  x = RowWritten(k, x.source_url)
        /\ \A k \in 1..Len(upsertLog) :
              upsertLog[k].ret.success =>
                  \A u \in UrlsOf(upsertLog[k].rows) : \E x \in store : x.source_url = u

\* three calls: a row is written, a failing call offers another version of
\* it, a successful call writes that version
C16_Witness ==
    /\ mode = "upsert"
    /\ Len(upsertLog) = 3
    /\ upsertLog[1].articles = <<E1, E2>> /\ upsertLog[1].ret.success
    /\ upsertLog[2].articles = <<E1b>> /\ ~upsertLog[2].ret.success
    /\ upsertLog[3].articles = <<E1b>> /\ upsertLog[3].ret.success
    /\ Cardinality(store) = 2
    /\ \E x \in store : x.source_url = "u1" /\ x.title = E1b.title

\* a step that repeats the upsert_articles call made just before it
RepeatedUpsert ==
    /\ upsertLog # <<>>
    /\ Len(upsertLog') = Len(upsertLog) + 1
    /\ LastUpsert'.articles = LastUpsert.articles
    /\ LastUpsert'.outcome = LastUpsert.outcome

C17_RepeatStep ==
    RepeatedUpsert =>
        /\ store' = store
        /\ LastUpsert'.ret.success = LastUpsert.ret.success
        /\ LastUpsert'.ret.count = LastUpsert.ret.count
        /\ LastUpsert'.rows = LastUpsert.rows

PassTitle(a) == IF a.title = Missing THEN <<>> ELSE a.title

\* two articles are the same for the identity pass: the same non-empty
\* source_url (falling back to url) or the same non-empty title
SameIdentity(a, b) ==
    \/ PresentUrl(IdentityUrl(a)) /\ IdentityUrl(a) = IdentityUrl(b)
    \/ PassTitle(a) # <<>> /\ PassTitle(a) = PassTitle(b)

\* the elements of seq at the positions K, in order
RECURSIVE AtPositions(_, _, _)
AtPositions(seq, K, k) ==
    IF k > Len(seq) THEN <<>>
    ELSE (IF k \in K THEN <<seq[k]>> ELSE <<>>) \o AtPositions(seq, K, k + 1)

Scanned == ScannedArticles(detailedFiles)

\* C18: the identity pass of upload_all_batches_to_supabase keeps first
\* occurrences only: what it hands to upsert_articles is a subsequence of
\* the scanned articles (the all_batches file, or the batch files 1..4 in
\* order) in which no two articles share a non-empty source_url-or-url or a
\* non-empty title, and every dropped article shares one of the two with an
\* earlier kept article.
C18_IdentityPassKeepsFirst ==
    (pc = "returned" /\ mode = "upload_all" /\ ~StripRaises(Scanned)) =>
        /\ \E K \in SUBSET (1..Len(Scanned)) :
              /\ all_batches = AtPositions(Scanned, K, 1)
              /\ \A j \in K : \A k \in K :
                    j < k => ~SameIdentity(Scanned[j], Scanned[k])
              /\ \A k \in (1..Len(Scanned)) \ K :
                    \E j \in K : j < k /\ SameIdentity(Scanned[j], Scanned[k])
        /\ all_batches # <<>> =>
              (upsertLog # <<>> /\ LastUpsert.articles = all_batches)

\* four batch files: the article of the second has the title of the first,
\* the article of the third its source_url, the article of the fourth has
\* neither a title nor a URL
C18_Witness ==
    /\ pc = "returned"
    /\ mode = "upload_all"
    /\ Scanned = <<E1, ET, E1b, ENoId>>
    /\ all_batches = <<E1, ENoId>>

\* C20: whenever one of the operations returns success = false its result
\* has a human-readable error string at its top level.
C20_FailureHasTopLevelError ==
    (pc = "returned" /\ ~result.success) => result.error # Absent

\* the position of the first call of an operation in the call log, 0 if none
FirstCall(log, op) ==
    IF \E k \in 1..Len(log) : log[k].op = op
    THEN CHOOSE k \in 1..Len(log) :
             log[k].op = op /\ \A m \in 1..(k - 1) : log[m].op # op
    ELSE 0

\* the checkpoint file of the run
RunFile == IF mode = "batch" THEN batch_number ELSE 0

\* the step that saves the checkpoint, writes to the store and returns
FinishStep == pc = "finish" /\ pc' = "returned"

C19_FinishStep ==
    FinishStep =>
        /\ detailedFiles'[RunFile] =
              [exists |-> TRUE, detailed_articles |-> detailed_articles,
               processing_stats |-> processing_stats]
        /\ \A k \in (0..TotalBatches) \ {RunFile} : detailedFiles'[k] = detailedFiles[k]
        /\ FirstCall(calls', "save_detailed") > 0
        /\ FirstCall(calls', "upsert") # 0 =>
              FirstCall(calls', "save_detailed") < FirstCall(calls', "upsert")
        /\ (LastUpsert'.called /\ LastUpsert'.outcome = "error") =>
              /\ store' = store
              /\ result'.success
              /\ result'.error = Absent
              /\ result'.saved
              /\ result'.detailed_articles = detailed_articles
              /\ result'.successful = processing_stats.successful
              /\ result'.failed = processing_stats.failed
              /\ result'.errors = processing_stats.errors
              /\ ~result'.supabase_upload.success
              /\ result'.supabase_upload.error # Absent

\* C19: a batch run, and the all-in-one run, writes its checkpoint file
\* with the enriched articles before it attempts the store write, and a
\* failing store write changes neither the file nor the articles and
\* statistics returned nor the success flag of the run: the failure shows
\* in supabase_upload only.
C19_StoreFailureKeepsCheckpoint == [][C19_FinishStep]_vars

\* a batch run that enriched an article, saved it and had its store write
\* rejected
C19_Witness ==
    /\ pc = "returned"
    /\ mode = "batch"
    /\ upsertLog # <<>>
    /\ LastUpsert.called
    /\ LastUpsert.outcome = "error"
    /\ result.success
    /\ ~result.supabase_upload.success
    /\ detailedFiles[batch_number].exists
    /\ detailedFiles[batch_number].detailed_articles # <<>>
    /\ store = {}

----------------------------------------------------------------------------
(* Collaborator requests of one enrichment run *)

CollaboratorOps == {"fetch", "extract", "embed"}

\* the Fetch, Extract and Embed requests of the run, oldest first
Requests == SelectSeq(calls, LAMBDA e : e.op \in CollaboratorOps)

CallCount(op, g) == Cardinality({k \in DOMAIN calls : calls[k] = Ev(op, g)})

CalledBefore(op1, op2, g) ==
    \E j, k \in DOMAIN calls : j < k /\ calls[j] = Ev(op1, g) /\ calls[k] = Ev(op2, g)

\* global numbers of the articles of the slice
SliceNumbers == (bounds.start_idx + 1)..(bounds.start_idx + Len(batch_articles))

CollectedAs(g) ==
    {detailed_articles[k] : k \in {m \in DOMAIN detailed_articles :
                                       detailed_articles[m].global_article_number = g}}

FailedAs(g) == {Errors[k].reason : k \in {m \in DOMAIN Errors : Errors[m].article = g}}

Settled(g) == CollectedAs(g) # {} \/ FailedAs(g) # {}

\* the enriched article has no text an embedding request could carry
NothingToEmbed(d) == d.title = <<>> /\ d.summary = <<>> /\ d.full_text = Null

InRun == pc \in {"loop", "scrape", "mistral", "embed", "sleep", "finish"}

\* the requests R are issued one at a time, stage after stage, article
\* after article
OneAtATimeIn(R) ==
    /\ \A g \in SliceNumbers :
          /\ \A op \in CollaboratorOps : CallCount(op, g) <= 1
          /\ CallCount("extract", g) = 1 => CalledBefore("fetch", "extract", g)
          /\ CallCount("embed", g) = 1 => CalledBefore("extract", "embed", g)
          /\ \A r \in FailedAs(g) : EventsOf(g) \cap CollaboratorOps = StagesBefore(r)
    /\ \A k \in 2..Len(R) : R[k - 1].article <= R[k].article
    /\ \A k \in DOMAIN R :
          /\ R[k].article \in SliceNumbers
          /\ \A h \in SliceNumbers : h < R[k].article => Settled(h)
    /\ pc \in {"scrape", "mistral", "embed"} =>
          /\ R # <<>>
          /\ R[Len(R)] =
                 Ev(CASE pc = "scrape" -> "fetch" [] pc = "mistral" -> "extract"
                      [] OTHER -> "embed", GlobalArticleNum)
          /\ ~Settled(GlobalArticleNum)

OneAtATime == \A R \in {Requests} : OneAtATimeIn(R)

\* C21 as stated: requests are issued strictly one at a time in article
\* order, Fetch and Extract at most once per article, and every article that
\* passed Extract has exactly one Embed request.
C21_EmbedExactlyOnce ==
    InRun =>
        /\ OneAtATime
        /\ \A g \in SliceNumbers :
              \A d \in CollectedAs(g) : CallCount("embed", g) = 1

\* C21: requests are issued strictly one at a time in article order: per
\* article Fetch at most once, Extract at most once and only after its
\* Fetch, Embed at most once and only after its Extract, and no request
\* for an article before every earlier article of the slice is collected
\* or recorded as failed; an article that passed Extract has exactly one
\* Embed request unless its extracted title and summary are empty and its
\* full_text is null, in which case it is collected with no Embed request.
C21_OneAtATimeEmbedAtMostOnce ==
    InRun =>
        /\ OneAtATime
        /\ \A g \in SliceNumbers :
              \A d \in CollectedAs(g) :
                  CallCount("embed", g) = IF NothingToEmbed(d) THEN 0 ELSE 1

\* a finished run that collected one article after an Embed request and
\* another without one
C21_Witness ==
    /\ pc = "finish"
    /\ \E g, h \in SliceNumbers :
          /\ g < h
          /\ CollectedAs(g) # {} /\ CallCount("embed", g) = 1
          /\ CollectedAs(h) # {} /\ CallCount("embed", h) = 0
          /\ CallCount("extract", h) = 1

\* C22: after every article of the slice, enriched or failed, the run waits
\* the fixed delay before it moves on: every article that is collected or
\* recorded as failed has had its delay scheduled.
C22_DelayAfterEveryArticle ==
    InRun => \A g \in SliceNumbers : Settled(g) => "sleep" \in EventsOf(g)

\* the run got past its merge and set up a slice
RunLooped ==
    /\ mode \in {"batch", "all"}
    /\ batch_number \in 0..TotalBatches
    /\ lastMerge.success
    /\ all_articles # <<>>

\* C23: nothing that happens while one article is handled, an absent or
\* null title, url or summary included, ends the run: when the run has
\* returned, every article of its slice was collected or recorded as failed.
C23_NoArticleAbortsRun ==
    (pc = "returned" /\ RunLooped) => \A g \in SliceNumbers : Settled(g)

\* C24: for every merged set of n >= 1 articles and every batch number b in
\* 1..4 the boundaries the run reports satisfy 0 <= start_index <= end_index
\* <= n and the slice has end_index - start_index articles; for n = 10 the
\* slices are [0,3), [3,6), [6,9), [9,10).
C24_BoundariesWellFormed ==
    (mode = "batch" /\ batch_number \in 1..TotalBatches /\ RunLooped) =>
        /\ 0 <= bounds.start_idx
        /\ bounds.start_idx <= bounds.end_idx
        /\ bounds.end_idx <= bounds.total_articles
        /\ bounds.total_articles = Len(all_articles)
        /\ Len(batch_articles) = bounds.end_idx - bounds.start_idx
        /\ Len(all_articles) = 10 =>
              /\ bounds.start_idx = 3 * (batch_number - 1)
              /\ bounds.end_idx = Min(3 * batch_number, 10)

----------------------------------------------------------------------------
(* A workflow: calls made one after another on one data directory *)

\* what a call leaves with the client when it returns
RunRecord ==
    [mode |-> mode, batch_number |-> batch_number, all_articles |-> all_articles,
     batch_articles |-> batch_articles, result |-> result]

\* the handler has returned: its locals are gone and the next call may start
Return ==
    /\ pc = "returned"
    /\ runLog' = Append(runLog, RunRecord)
    /\ pc' = "idle"
    /\ mode' = "none"
    /\ batch_number' = 0
    /\ all_articles' = <<>>
    /\ bounds' = NoBounds
    /\ batch_articles' = <<>>
    /\ i' = 0
    /\ article_data' = NoArticleData
    /\ detailed_articles' = <<>>
    /\ processing_stats' = InitStats
    /\ calls' = <<>>
    /\ result' = NoResult
    /\ UNCHANGED <<files, mergedFile, lastMerge, detailedFiles, store, uploadVars>>

\* save_news_json at the end of a scrape: a newer {source}_news_* file, which
\* load_latest_news_files picks from then on
NewScrape(source, articles) ==
    /\ pc = "idle"
    /\ files' = [files EXCEPT ![source] = FileOf(articles)]
    /\ UNCHANGED <<mergedFile, lastMerge, detailedFiles, store, runVars, uploadVars, runLog>>

\* delete_previous_data: every data/*.json file is removed
DeletePreviousData ==
    /\ pc = "idle"
    /\ files' = [dailystar |-> NoFile, prothomalo |-> NoFile]
    /\ mergedFile' = NoMergedFile
    /\ detailedFiles' = [k \in 0..TotalBatches |-> NoDetailedFile]
    /\ UNCHANGED <<lastMerge, store, runVars, uploadVars, runLog>>

\* most articles a scraped list holds in a workflow of batch runs
MaxWorkflowLen == 4

\* the list scraped first, and the list of a later scrape, which has a new
\* article at its head
ScrapedList(first, n) == [k \in 1..n |-> Plain(first + k - 1)]
FirstScrapes == {ScrapedList(1, n) : n \in 1..MaxWorkflowLen}
LaterScrapes == {ScrapedList(0, n) : n \in 1..MaxWorkflowLen}

InitWorkflow ==
    /\ \E articles \in FirstScrapes :
          files = [dailystar |-> FileOf(articles), prothomalo |-> NoFile]
    /\ InitRest

\* between two runs of the workflow
BetweenRuns == runLog # <<>> /\ Len(runLog) < TotalBatches

\* the client calls batch 1, 2, 3, 4 in turn; between two runs a scrape may
\* save a new file and the data files may be deleted
NextWorkflow ==
    \/ \E b \in 1..TotalBatches : b = Len(runLog) + 1 /\ StartBatch(b)
    \/ LoopExit
    \/ NoUrl
    \/ \E o \in StoreOutcomes : Finish(o)
    \/ Return
    \/ \E articles \in LaterScrapes : BetweenRuns /\ NewScrape("dailystar", articles)
    \/ BetweenRuns /\ DeletePreviousData

SpecWorkflow == InitWorkflow /\ [][NextWorkflow]_vars

RECURSIVE SlicesOf(_, _)
\* the slices of the first k runs, one after another
SlicesOf(log, k) ==
    IF k = 0 THEN <<>> ELSE SlicesOf(log, k - 1) \o log[k].batch_articles

WorkflowDone == pc = "idle" /\ Len(runLog) = TotalBatches

\* C25: the batch runs 1..4 of one workflow slice the same merged sequence
\* and together attempt every article of it exactly once, whatever happens
\* to the stored source files between the runs.
C25_RunsPartitionOneSet ==
    WorkflowDone =>
        /\ \A k \in 1..TotalBatches : runLog[k].all_articles = runLog[1].all_articles
        /\ SlicesOf(runLog, TotalBatches) = runLog[1].all_articles

\* C26: on every path that reaches the store the rows handed to it in one
\* upsert call have pairwise distinct source_url values.
C26_RowsDistinctInOneCall ==
    \A e \in DOMAIN upsertLog :
        upsertLog[e].called =>
            \A j, k \in DOMAIN upsertLog[e].rows :
                j # k => upsertLog[e].rows[j].source_url # upsertLog[e].rows[k].source_url

\* the sets of positions of the scanned articles that make up what the
\* identity pass handed on (more than one when an article occurs twice)
KeptPositions ==
    {K \in SUBSET (1..Len(Scanned)) : all_batches = AtPositions(Scanned, K, 1)}

UploadAllReturned == pc = "returned" /\ mode = "upload_all" /\ ~StripRaises(Scanned)

\* the scanned article at k has a URL that no earlier kept article has
NewUrlAt(K, k) ==
    /\ PresentUrl(IdentityUrl(Scanned[k]))
    /\ \A j \in K : j < k => IdentityUrl(Scanned[j]) # IdentityUrl(Scanned[k])

\* the scanned article at k has the non-empty title of an earlier kept article
SeenTitleAt(K, k) ==
    /\ PassTitle(Scanned[k]) # <<>>
    /\ \E j \in K : j < k /\ PassTitle(Scanned[j]) = PassTitle(Scanned[k])

\* C27 as stated: in the identity pass of upload_all the title is a fallback
\* only: an article with a non-empty URL that no earlier kept article has is
\* kept, even when its title is that of an earlier kept article.
C27_NewUrlIsKept ==
    (UploadAllReturned /\ Scanned # <<>>) =>
        \E K \in KeptPositions :
            \A k \in 1..Len(Scanned) : NewUrlAt(K, k) => k \in K

\* C27: in the identity pass of upload_all the title is compared whenever
\* the URL comparison does not flag the article: an article with a non-empty
\* URL that no earlier kept article has is kept exactly when its trimmed
\* title is empty or is not the title of an earlier kept article.
C27_NewUrlKeptUnlessTitleSeen ==
    (UploadAllReturned /\ Scanned # <<>>) =>
        \E K \in KeptPositions :
            \A k \in 1..Len(Scanned) :
                NewUrlAt(K, k) => (k \in K <=> ~SeenTitleAt(K, k))

\* an all_batches file of two articles with different URLs and one title:
\* the second is dropped
C27_Witness ==
    /\ UploadAllReturned
    /\ Scanned = <<E1, ET>>
    /\ NewUrlAt({1}, 2)
    /\ SeenTitleAt({1}, 2)
    /\ all_batches = <<E1>>

----------------------------------------------------------------------------
(* Termination of an enrichment run *)

\* a step of the running handler: its own code, or a collaborator returning
RunStep ==
    \/ LoopExit
    \/ TitleRaises
    \/ NoUrl
    \/ CallScrape
    \/ \E o \in ScrapeOutcomes : ScrapeFails(o)
    \/ ScrapeSucceeds
    \/ \E f \in ExtractFailures : MistralFails(f)
    \/ \E d \in ExtractChoices : MistralSucceeds(d)
    \/ \E f \in EmbedFailures : EmbedFails(f)
    \/ \E v \in EmbedVectors : EmbedSucceeds(v)
    \/ SleepReturns
    \/ \E o \in StoreOutcomes : Finish(o)

\* the handler is scheduled until it returns and every collaborator call
\* comes back
SpecLive == Spec /\ WF_vars(RunStep)

\* the run is over and every article of its slice was attempted once
SliceCompleted ==
    /\ pc = "returned"
    /\ i = Len(batch_articles)
    /\ \A g \in SliceNumbers : Settled(g) /\ CallCount("fetch", g) <= 1

\* C28: if every collaborator call returns, a run with a valid batch number
\* and a non-empty merged set ends with a result after it has attempted
\* every article of its slice once, in slice order; it never stops part-way.
C28_RunCompletesSlice == (pc = "loop") ~> SliceCompleted

\* the part that holds: such a run ends with a result
RunTerminates == (pc = "loop") ~> (pc = "returned")

----------------------------------------------------------------------------
(* The all-in-one run and the four batch runs on one merged set *)

\* what the collaborators answer is fixed by the article they are asked
\* about: the scrape of an article
FixedScrape(article) ==
    CASE ArticleUrl(article) = "u1" -> "error"
      [] ArticleUrl(article) = "u3" -> "unreadable"
      [] OTHER -> "content"

\* the extraction of an article: a failure, or the index of one of the
\* answers of ExtractOutputs
FixedExtract(article) ==
    CASE ArticleUrl(article) = "u5" -> "bad_json"
      [] ArticleUrl(article) = "u8" -> "blank"
      [] OTHER -> "full"

\* the embedding of an article: a failure or a vector
FixedEmbed(article) ==
    IF ArticleUrl(article) = "u6" THEN "provider_error" ELSE "vector"

FixedExtractOutput(article) ==
    {d \in ExtractOutputs(article) :
        CASE FixedExtract(article) = "blank" -> d.title = <<>> /\ d.full_text = Null
          [] FixedExtract(article) = "full" -> d.title = article.title /\ d.full_text # Null
          [] OTHER -> FALSE}

\* longest scraped list of the comparison
MaxEquivLen == 5

\* the articles a scraped page is taken from, in a ring
EquivRing == <<KG, KA, KF, KD, KE, KH, KN, KP>>

\* n articles of the ring from position s on
RingWindow(s, n) == [k \in 1..n |-> EquivRing[((s + k - 2) % Len(EquivRing)) + 1]]

EquivLists == {RingWindow(s, n) : s \in 1..Len(EquivRing), n \in 1..MaxEquivLen}

InitEquiv ==
    /\ \E articles \in EquivLists :
          files = [dailystar |-> FileOf(articles), prothomalo |-> NoFile]
    /\ InitRest

\* the client calls the all-in-one endpoint and then batches 1..4 on the
\* same files, the collaborators answering as fixed
NextEquiv ==
    \/ runLog = <<>> /\ StartAll
    \/ \E b \in 1..TotalBatches : b = Len(runLog) /\ StartBatch(b)
    \/ LoopExit
    \/ TitleRaises
    \/ NoUrl
    \/ CallScrape
    \/ \E o \in ScrapeOutcomes :
          pc = "scrape" /\ o = FixedScrape(CurrentArticle) /\ ScrapeFails(o)
    \/ pc = "scrape" /\ FixedScrape(CurrentArticle) = "content" /\ ScrapeSucceeds
    \/ \E f \in ExtractFailures :
          pc = "mistral" /\ f = FixedExtract(CurrentArticle) /\ MistralFails(f)
    \/ \E d \in ExtractChoices :
          d \in FixedExtractOutput(CurrentArticle) /\ MistralSucceeds(d)
    \/ \E f \in EmbedFailures :
          pc = "embed" /\ f = FixedEmbed(CurrentArticle) /\ EmbedFails(f)
    \/ \E v \in EmbedVectors :
          pc = "embed" /\ FixedEmbed(CurrentArticle) = "vector" /\ EmbedSucceeds(v)
    \/ SleepReturns
    \/ \E o \in StoreOutcomes : Finish(o)
    \/ Return

SpecEquiv == InitEquiv /\ [][NextEquiv]_vars

\* the enriched articles without the batch stamp
RECURSIVE Unstamped(_)
Unstamped(articles) ==
    IF articles = <<>> THEN <<>>
    ELSE <<[Head(articles) EXCEPT !.batch_number = NoNum]>> \o Unstamped(Tail(articles))

RECURSIVE BatchesDetailed(_, _)
\* detailed_articles of the batch runs 1..b, one after another
BatchesDetailed(log, b) ==
    IF b = 0 THEN <<>>
    ELSE BatchesDetailed(log, b - 1) \o log[b + 1].result.detailed_articles

BothDone == pc = "idle" /\ Len(runLog) = TotalBatches + 1

\* the positions of the batch runs in the log
BatchRuns == 2..(TotalBatches + 1)

ResultsAgree ==
    /\ Unstamped(BatchesDetailed(runLog, TotalBatches)) =
          runLog[1].result.detailed_articles
    /\ SumOver(BatchRuns, [k \in BatchRuns |-> runLog[k].result.successful]) =
          runLog[1].result.successful
    /\ SumOver(BatchRuns, [k \in BatchRuns |-> runLog[k].result.failed]) =
          runLog[1].result.failed

\* C29: on one merged set and with the same collaborator answers per
\* article, the detailed_articles of batch runs 1..4 put together are those
\* of the all-in-one run, in the same order and with the same
\* global_article_number, but for batch_number; and the successful and failed
\* counts of the four batch runs sum to those of the all-in-one run.
C29_BatchesEqualAllInOne == BothDone => ResultsAgree

\* the same for merged sets in which every title is a text
EqualWithoutNullTitle ==
    (BothDone /\ \A k \in DOMAIN runLog[1].all_articles :
                     runLog[1].all_articles[k].title # Null) => ResultsAgree

----------------------------------------------------------------------------
(* The merged output as a whole *)

\* the title+summary score of two articles of the merged output
OutputScore(j, k) ==
    calculate_text_similarity(ArticleText(lastMerge.news_articles[j]),
                              ArticleText(lastMerge.news_articles[k]))

\* C30: in the output of merge_news_sources no two articles score at least
\* the threshold with each other, and every article of the merged input that
\* is not in the output scores at least the threshold with an article that
\* precedes it in the merged input.
C30_OutputDuplicateFree ==
    lastMerge.success =>
        /\ \A j, k \in DOMAIN lastMerge.news_articles :
              j < k => ~OverThreshold(OutputScore(j, k))
        /\ \A b \in Indices \ KeptSet :
              \E a \in Indices : a < b /\ OverThreshold(ScoreOf(a, b))

\* a merge that removed an article and kept two whose score is between zero
\* and the threshold
C30_Witness ==
    /\ lastMerge.success
    /\ Indices \ KeptSet # {}
    /\ \E j, k \in DOMAIN lastMerge.news_articles :
          /\ j < k
          /\ OutputScore(j, k).num > 0
          /\ ~OverThreshold(OutputScore(j, k))

====
